---- MODULE Spec2Model ----
(***************************************************************************)
(* Connection and command-transport layer of the M511 QR-code scaler:      *)
(* BradyPrinterController (js/printer-controller.js), its USBConnection    *)
(* based variant (unnamed/part_000 with js/usb-connection.js), the feed    *)
(* and cut commands over raw USB, and the raster encoders of               *)
(* js/dataprocess.js and convertToBradyBitmap.                             *)
(*                                                                         *)
(* JavaScript runs handlers to completion between awaits, so every action  *)
(* below is one synchronous stretch of a handler: from its entry or from   *)
(* the resumption of an await to the next await or to its end.  What the   *)
(* browser, the printer and the vendor SDK answer is chosen with \E.       *)
(***************************************************************************)
EXTENDS Integers, Sequences, FiniteSets, TLC

(***************************************************************************)
(* Program constants                                                       *)
(***************************************************************************)
maxReconnectAttempts == 3
reconnectionCooldown == 10
ReconnectBaseDelay == 5
ReconnectStepDelay == 2
Interface0Attempts == 3

(***************************************************************************)
(* Bounds of the model                                                     *)
(***************************************************************************)
NumIfaces == 2
MaxTimers == 2
MaxInFlight == 1
MaxFiles == 1
MaxWrites == 2
MaxHandlers == 1
MaxWidth == 9
MaxHeight == 2
MaxInk == 1

Ifaces == 0 .. (NumIfaces - 1)
MaxDelay == ReconnectBaseDelay + maxReconnectAttempts * ReconnectStepDelay
Types == {"network", "bluetooth", "usb"}

\* The vendor SDK object exposes an unknown subset of its methods.
SdkFull == {"connect", "discoverPrinters", "isConnected", "printBitmap",
            "showDiscoveredUsbDevices", "disconnect", "feed", "cut", "on"}
SdkBasic == {"discoverPrinters", "isConnected", "printBitmap", "feed", "cut",
             "on"}
SdkProfiles == {SdkFull, SdkBasic}

VARIABLES
    \* fields of BradyPrinterController
    isConnected, connectionType, usbDevice, usbInterfaceNumber,
    bluetoothDevice, bluetoothServer, reconnectAttempts,
    usbPollingInterval, bluetoothKeepAlive,
    \* buttons of the page
    bluetoothBtnDisabled, usbBtnDisabled, reconnectBtnShown,
    \* time: seconds since lastDisconnectionTime (saturating), pending
    \* setTimeout callbacks of handleBluetoothDisconnection
    sinceDisc, reconnTimers,
    \* the vendor SDK
    sdkMethods, sdkLink,
    \* the USB device as the browser sees it
    usbOpened, usbClaimed, ifHeld, ifOut,
    \* the Bluetooth device as the browser sees it
    gattConnected, gattListener, gattDropPending,
    \* the file-upload collaborator
    fileSel, convertedImage,
    \* positions of the asynchronous handlers
    pcDiscover, pcUSB, usbAttempt, pcDiscUSB, pcBT, pcDiscBT,
    autoInFlight, manualInFlight, pcPrint,
    \* what has been observed of the handlers
    failedAuto, printObs,
    \* the USBConnection based controller
    uc,
    \* the interval of startConnectionMonitoring()
    connectionMonitor,
    \* the feed and cut handlers and the writes they have issued
    cmd,
    \* the raster handed to an encoder and the frame it produced
    image, frame,
    \* the channels of one pixel and the bit each encoder gives it
    pixel, ink,
    \* the call that turns an image into a command stream
    conv,
    \* the methods the controller has invoked on an SDK that lacks them
    sdkMissing,
    \* the interface of this.usbOutputEndpoint (-1: not set) and the handler
    \* of the force-interface-0 button
    usbOutputEndpoint, force,
    \* the reads (transferIn) of the USBConnection object on its IN endpoint
    usbIn

ctlVars == <<isConnected, connectionType, usbDevice, usbInterfaceNumber,
             bluetoothDevice, bluetoothServer, reconnectAttempts,
             usbPollingInterval, bluetoothKeepAlive>>
uiVars == <<bluetoothBtnDisabled, usbBtnDisabled, reconnectBtnShown>>
statusVars == <<isConnected, connectionType, bluetoothBtnDisabled,
                usbBtnDisabled, reconnectBtnShown>>
timeVars == <<sinceDisc, reconnTimers>>
sdkVars == <<sdkMethods, sdkLink>>
usbEnvVars == <<usbOpened, usbClaimed, ifHeld, ifOut>>
btEnvVars == <<gattConnected, gattListener, gattDropPending>>
pcVars == <<pcDiscover, pcUSB, usbAttempt, pcDiscUSB, pcBT, pcDiscBT,
            autoInFlight, manualInFlight, pcPrint>>
obsVars == <<failedAuto, printObs>>
fileVars == <<fileSel, convertedImage>>
encVars == <<image, frame, pixel, ink>>
extVars == <<sdkMissing, usbOutputEndpoint, force, usbIn>>
cmdVars == <<cmd, encVars, conv, extVars>>

vars == <<ctlVars, uiVars, timeVars, sdkVars, usbEnvVars, btEnvVars, fileVars,
          pcVars, obsVars, uc, connectionMonitor, cmdVars>>

Has(m) == m \in sdkMethods

(***************************************************************************)
(* updateConnectionStatus(connected, connectionType = null)                *)
(***************************************************************************)
updateConnectionStatusWith(connected, type, btDevice) ==
    [isConnected |-> connected,
     connectionType |-> IF connected THEN type ELSE "null",
     bluetoothBtnDisabled |-> connected /\ type # "bluetooth",
     usbBtnDisabled |-> connected /\ type # "usb",
     reconnectBtnShown |-> IF connected THEN FALSE
                           ELSE (btDevice \/ reconnectBtnShown)]

updateConnectionStatus(connected, type) ==
    updateConnectionStatusWith(connected, type, bluetoothDevice)

Apply(r) ==
    /\ isConnected' = r.isConnected
    /\ connectionType' = r.connectionType
    /\ bluetoothBtnDisabled' = r.bluetoothBtnDisabled
    /\ usbBtnDisabled' = r.usbBtnDisabled
    /\ reconnectBtnShown' = r.reconnectBtnShown

NoPrint == [outcome |-> "none", sdkCalls |-> 0, usbWrites |-> 0,
            rawPrints |-> 0, allThrew |-> FALSE, typeAtFallback |-> "null",
            img |-> 0, rawImg |-> 0]

UcInit == [usb |-> FALSE, device |-> FALSE, interface |-> FALSE,
           connectionType |-> "null", pc |-> "idle", outcome |-> "none",
           told |-> "none", writes |-> <<>>, sent |-> "none"]

NoTimers == [d \in 0 .. MaxDelay |-> 0]

\* the feed and the cut button each run one handler at a time, and so does
\* the status button
Cmds == {"feed", "cut"}
Intents == Cmds \cup {"status"}
CmdIdle == [pc |-> "idle", at |-> "none", ep |-> -1, writes |-> <<>>,
            outcome |-> "none", sdkCalls |-> 0]

ForceIdle == [pc |-> "idle", attempt |-> 0]

\* listening: a loop of listenForResponses has a read pending; timers: the
\* delayed readResponse calls not yet due; readers: the reads of
\* readResponse that race their timeout; late: the reads whose timeout has
\* won and that are still pending; stolen: a reply went elsewhere while a
\* reader was waiting
NoReads == [listening |-> FALSE, timers |-> 0, readers |-> 0, late |-> 0,
            stolen |-> FALSE]

NoImage == [width |-> 0, height |-> 0, dark |-> {}]
NoPixel == [r |-> 255, g |-> 255, b |-> 255]
NoInk == [raster |-> -1, brady |-> -1]
NoSource == [decodes |-> TRUE, width |-> 1, height |-> 1]
NoConv == [pc |-> "idle", path |-> "none", src |-> NoSource,
           canvas |-> <<0, 0>>, stream |-> FALSE, writes |-> 0]
NoFrame == [encoder |-> "none", payload |-> <<>>, wire |-> <<>>]

\* interfaces another program holds: claimInterface on them throws
HeldSets == {0 .. (k - 1) : k \in 0 .. NumIfaces}

\* the state after construction, with the inputs of a run drawn from in
InitOf(in) ==
    /\ isConnected = FALSE
    /\ connectionType = "null"
    /\ usbDevice = FALSE
    /\ usbInterfaceNumber = -1
    /\ bluetoothDevice = FALSE
    /\ bluetoothServer = FALSE
    /\ reconnectAttempts = 0
    /\ usbPollingInterval = FALSE
    /\ bluetoothKeepAlive = FALSE
    /\ bluetoothBtnDisabled = FALSE
    /\ usbBtnDisabled = FALSE
    /\ reconnectBtnShown = FALSE
    /\ sinceDisc = reconnectionCooldown
    /\ reconnTimers = NoTimers
    /\ sdkMethods \in in.profiles
    /\ sdkLink = "none"
    /\ usbOpened = FALSE
    /\ usbClaimed = {}
    /\ ifHeld \in HeldSets
    /\ ifOut \in in.outs
    /\ gattConnected = FALSE
    /\ gattListener = FALSE
    /\ gattDropPending = "none"
    /\ fileSel = 0
    /\ convertedImage = FALSE
    /\ pcDiscover = "idle"
    /\ pcUSB = "idle"
    /\ usbAttempt = 0
    /\ pcDiscUSB = "idle"
    /\ pcBT = "idle"
    /\ pcDiscBT = "idle"
    /\ autoInFlight = 0
    /\ manualInFlight = 0
    /\ pcPrint = "idle"
    /\ failedAuto = 0
    /\ printObs = NoPrint
    /\ uc = UcInit
    /\ connectionMonitor = FALSE
    /\ cmd = [c \in Intents |-> CmdIdle]
    /\ image \in in.images
    /\ frame = NoFrame
    /\ pixel \in in.pixels
    /\ ink = NoInk
    /\ conv = NoConv
    /\ sdkMissing = IF Has("on") THEN {} ELSE {"on"}
    /\ usbOutputEndpoint = -1
    /\ force = ForceIdle
    /\ usbIn = NoReads

Plain == [profiles |-> SdkProfiles, images |-> {NoImage},
          pixels |-> {NoPixel}, outs |-> {Ifaces}]

InitWith(profiles, images) ==
    InitOf([Plain EXCEPT !.profiles = profiles, !.images = images])

Init == InitWith(SdkProfiles, {NoImage})

(***************************************************************************)
(* Device layout: the endpoints of each interface (alternates[0])          *)
(***************************************************************************)
IfOut == ifOut
IfIn == Ifaces

Min(S) == CHOOSE m \in S : \A n \in S : m <= n

(***************************************************************************)
(* Pending setTimeout callbacks: reconnTimers[d] is the number of          *)
(* callbacks that become due in d seconds.                                 *)
(***************************************************************************)
RECURSIVE SumTo(_, _)
SumTo(f, d) == IF d < 0 THEN 0 ELSE f[d] + SumTo(f, d - 1)
TimerCount == SumTo(reconnTimers, MaxDelay)

Schedule(f, d) == [f EXCEPT ![d] = @ + 1]

Elapse(f) == [d \in 0 .. MaxDelay |->
                 IF d = 0 THEN f[0] + f[1]
                 ELSE IF d < MaxDelay THEN f[d + 1] ELSE 0]

\* a backoff that does not grow with the attempts
waitTime_Flat(attempts) == ReconnectBaseDelay + ReconnectStepDelay

\* const waitTime = 5000 + (this.reconnectAttempts * 2000)
waitTime(attempts) == ReconnectBaseDelay + attempts * ReconnectStepDelay

(***************************************************************************)
(* handleBluetoothDisconnection(): synchronous.  It writes the status      *)
(* variables, reconnectAttempts, the cooldown clock, the timers and the    *)
(* connection monitor.                                                     *)
(***************************************************************************)
handleBluetoothDisconnection ==
    IF sinceDisc < reconnectionCooldown
    THEN /\ UNCHANGED <<statusVars, reconnectAttempts, timeVars,
                        connectionMonitor>>
    ELSE /\ sinceDisc' = 0
         /\ connectionMonitor' = FALSE
         /\ IF reconnectAttempts < maxReconnectAttempts /\ bluetoothDevice
            THEN /\ TimerCount < MaxTimers
                 /\ reconnectAttempts' = reconnectAttempts + 1
                 /\ reconnTimers' =
                        Schedule(reconnTimers, waitTime(reconnectAttempts + 1))
                 /\ Apply(updateConnectionStatus(FALSE, "null"))
            ELSE /\ reconnectAttempts' = 0
                 /\ UNCHANGED reconnTimers
                 /\ Apply([updateConnectionStatus(FALSE, "null")
                             EXCEPT !.reconnectBtnShown = TRUE])

(***************************************************************************)
(* Handlers the user has started and that have not returned.  The page     *)
(* does not serialise them; the model lets at most MaxHandlers run at once. *)
(***************************************************************************)
Running(pc) == IF pc = "idle" THEN 0 ELSE 1

HandlersInFlight ==
    Running(pcDiscover) + Running(pcUSB) + Running(pcDiscUSB) + Running(pcBT)
    + Running(pcDiscBT) + Running(pcPrint) + manualInFlight

CanStart == HandlersInFlight < MaxHandlers

(***************************************************************************)
(* discoverPrinter()                                                       *)
(***************************************************************************)
DiscoverClick ==
    /\ CanStart
    /\ pcDiscover = "idle"
    /\ IF Has("connect") THEN
            /\ pcDiscover' = "connect"
            /\ UNCHANGED <<statusVars>>
       ELSE IF Has("discoverPrinters") THEN
            /\ pcDiscover' = "discover"
            /\ UNCHANGED <<statusVars>>
       ELSE /\ pcDiscover' = "idle"
            /\ Apply(updateConnectionStatus(FALSE, "null"))
    /\ UNCHANGED <<usbDevice, usbInterfaceNumber, bluetoothDevice,
                   bluetoothServer, reconnectAttempts, usbPollingInterval,
                   bluetoothKeepAlive, timeVars, sdkVars, usbEnvVars,
                   btEnvVars, fileVars, pcUSB, usbAttempt, pcDiscUSB, pcBT,
                   pcDiscBT, autoInFlight, manualInFlight, pcPrint,
                   failedAuto, printObs, uc, connectionMonitor, cmdVars>>

DiscoverDone ==
    /\ pcDiscover \in {"connect", "discover"}
    /\ pcDiscover' = "idle"
    /\ \E ok \in BOOLEAN :
          /\ IF ok
             THEN /\ Apply(updateConnectionStatus(TRUE, "network"))
                  /\ sdkLink' = "network"
             ELSE /\ Apply(updateConnectionStatus(FALSE, "null"))
                  /\ UNCHANGED sdkLink
    /\ UNCHANGED <<usbDevice, usbInterfaceNumber, bluetoothDevice,
                   bluetoothServer, reconnectAttempts, usbPollingInterval,
                   bluetoothKeepAlive, timeVars, sdkMethods, usbEnvVars,
                   btEnvVars, fileVars, pcUSB, usbAttempt, pcDiscUSB, pcBT,
                   pcDiscBT, autoInFlight, manualInFlight, pcPrint,
                   failedAuto, printObs, uc, connectionMonitor, cmdVars>>

usbCtl == <<usbDevice, usbInterfaceNumber, usbPollingInterval>>
btCtl == <<bluetoothDevice, bluetoothServer, bluetoothKeepAlive>>
reconnPcs == <<autoInFlight, manualInFlight>>

(***************************************************************************)
(* connectUSB() and connectDirectUSB(device)                               *)
(***************************************************************************)
\* catch (error) { ... this.updateConnectionStatus(false) } finally { ... }
ConnectUSBFailed ==
    /\ pcUSB' = "idle"
    /\ Apply([updateConnectionStatus(FALSE, "null")
               EXCEPT !.usbBtnDisabled = FALSE])

\* the USB button calls connectUSB() unless connectionType is 'usb'
ConnectUSBClick ==
    /\ CanStart
    /\ pcUSB = "idle"
    /\ ~usbBtnDisabled
    /\ connectionType # "usb"
    /\ usbBtnDisabled' = TRUE
    /\ pcUSB' = IF Has("showDiscoveredUsbDevices") THEN "sdkDiscovery"
                ELSE "requestDevice"
    /\ UNCHANGED <<isConnected, connectionType, bluetoothBtnDisabled,
                   reconnectBtnShown, usbCtl, btCtl, reconnectAttempts,
                   timeVars, sdkVars, usbEnvVars, btEnvVars, fileVars,
                   pcDiscover, usbAttempt, pcDiscUSB, pcBT, pcDiscBT,
                   reconnPcs, pcPrint, obsVars, uc, connectionMonitor, cmdVars>>

\* await this.sdk.showDiscoveredUsbDevices(); ...; await this.sdk.isConnected()
ConnectUSBSdkDiscovery ==
    /\ pcUSB = "sdkDiscovery"
    /\ \E threw \in BOOLEAN, link \in {sdkLink, "usb"} :
          IF threw
          THEN /\ pcUSB' = "requestDevice"
               /\ UNCHANGED <<statusVars, sdkLink>>
          ELSE /\ sdkLink' = link
               /\ IF Has("isConnected") /\ link = "none"
                  THEN /\ pcUSB' = "requestDevice"
                       /\ UNCHANGED <<statusVars>>
                  ELSE /\ pcUSB' = "idle"
                       /\ Apply([updateConnectionStatus(TRUE, "usb")
                                  EXCEPT !.usbBtnDisabled = FALSE])
    /\ UNCHANGED <<usbCtl, btCtl, reconnectAttempts, timeVars, sdkMethods,
                   usbEnvVars, btEnvVars, fileVars, pcDiscover, usbAttempt,
                   pcDiscUSB, pcBT, pcDiscBT, reconnPcs, pcPrint,
                   failedAuto, printObs, uc, connectionMonitor, cmdVars>>

\* const device = await navigator.usb.requestDevice(...)
ConnectUSBRequestDevice ==
    /\ pcUSB = "requestDevice"
    /\ \E picked \in BOOLEAN :
          IF picked
          THEN /\ pcUSB' = "open"
               /\ UNCHANGED <<statusVars>>
          ELSE ConnectUSBFailed
    /\ UNCHANGED <<usbCtl, btCtl, reconnectAttempts, timeVars, sdkVars,
                   usbEnvVars, btEnvVars, fileVars, pcDiscover, usbAttempt,
                   pcDiscUSB, pcBT, pcDiscBT, reconnPcs, pcPrint,
                   failedAuto, printObs, uc, connectionMonitor, cmdVars>>

\* if (!device.opened) await device.open()
ConnectUSBOpen ==
    /\ pcUSB = "open"
    /\ \E ok \in BOOLEAN :
          IF usbOpened \/ ok
          THEN /\ usbOpened' = TRUE
               /\ pcUSB' = "claim0"
               /\ usbAttempt' = 0
               /\ UNCHANGED <<statusVars>>
          ELSE /\ ConnectUSBFailed
               /\ UNCHANGED <<usbOpened, usbAttempt>>
    /\ UNCHANGED <<usbCtl, btCtl, reconnectAttempts, timeVars, sdkVars,
                   usbClaimed, ifHeld, ifOut, btEnvVars, fileVars, pcDiscover,
                   pcDiscUSB, pcBT, pcDiscBT, reconnPcs, pcPrint,
                   failedAuto, printObs, uc, connectionMonitor, cmdVars>>

\* this.usbDevice = device; this.usbInterfaceNumber = claimedInterfaceNumber
StoreBinding(n) ==
    /\ usbClaimed' = usbClaimed \cup {n}
    /\ usbDevice' = TRUE
    /\ usbInterfaceNumber' = n
    /\ pcUSB' = "test"

\* a negotiation that gives interface 0 a single attempt
ConnectUSBClaim0_OneTry ==
    /\ pcUSB = "claim0"
    /\ IF 0 \notin usbClaimed /\ 0 \notin ifHeld
       THEN /\ StoreBinding(0)
            /\ UNCHANGED usbAttempt
       ELSE /\ usbAttempt' = usbAttempt + 1
            /\ pcUSB' = "claimAlt"
            /\ UNCHANGED <<usbClaimed, usbDevice, usbInterfaceNumber>>
    /\ UNCHANGED <<statusVars, usbPollingInterval, btCtl, reconnectAttempts,
                   timeVars, sdkVars, usbOpened, ifHeld, ifOut, btEnvVars, fileVars,
                   pcDiscover, pcDiscUSB, pcBT, pcDiscBT, reconnPcs, pcPrint,
                   obsVars, uc, connectionMonitor, cmdVars>>

\* one iteration of: for (attempt = 0; attempt < 3 && !interfaceClaimed; ...)
ConnectUSBClaim0 ==
    /\ pcUSB = "claim0"
    /\ IF 0 \notin usbClaimed /\ 0 \notin ifHeld
       THEN /\ StoreBinding(0)
            /\ UNCHANGED usbAttempt
       ELSE /\ usbAttempt' = usbAttempt + 1
            /\ pcUSB' = IF usbAttempt + 1 < Interface0Attempts THEN "claim0"
                        ELSE "claimAlt"
            /\ UNCHANGED <<usbClaimed, usbDevice, usbInterfaceNumber>>
    /\ UNCHANGED <<statusVars, usbPollingInterval, btCtl, reconnectAttempts,
                   timeVars, sdkVars, usbOpened, ifHeld, ifOut, btEnvVars, fileVars,
                   pcDiscover, pcDiscUSB, pcBT, pcDiscBT, reconnPcs, pcPrint,
                   obsVars, uc, connectionMonitor, cmdVars>>

\* for (let i = 1; i < interfaces.length; i++) if (!iface.claimed) claim
AltCandidates == {i \in Ifaces : i >= 1 /\ i \notin usbClaimed /\ i \notin ifHeld}

\* a negotiation that starts over when the scan finds nothing
ConnectUSBClaimAlt_Retries ==
    /\ pcUSB = "claimAlt"
    /\ IF AltCandidates # {}
       THEN /\ StoreBinding(Min(AltCandidates))
            /\ UNCHANGED <<statusVars, usbAttempt>>
       ELSE /\ pcUSB' = "claim0"
            /\ usbAttempt' = Interface0Attempts - 1
            /\ UNCHANGED <<statusVars, usbClaimed, usbDevice,
                           usbInterfaceNumber>>
    /\ UNCHANGED <<usbPollingInterval, btCtl, reconnectAttempts, timeVars,
                   sdkVars, usbOpened, ifHeld, ifOut, btEnvVars, fileVars,
                   pcDiscover, pcDiscUSB, pcBT, pcDiscBT,
                   reconnPcs, pcPrint, failedAuto, printObs, uc,
                   connectionMonitor, cmdVars>>

ConnectUSBClaimAlt ==
    /\ pcUSB = "claimAlt"
    /\ IF AltCandidates # {}
       THEN /\ StoreBinding(Min(AltCandidates))
            /\ UNCHANGED <<statusVars>>
       ELSE /\ ConnectUSBFailed
            /\ UNCHANGED <<usbClaimed, usbDevice, usbInterfaceNumber>>
    /\ UNCHANGED <<usbPollingInterval, btCtl, reconnectAttempts, timeVars,
                   sdkVars, usbOpened, ifHeld, ifOut, btEnvVars, fileVars,
                   pcDiscover, usbAttempt, pcDiscUSB, pcBT, pcDiscBT,
                   reconnPcs, pcPrint, failedAuto, printObs, uc, connectionMonitor, cmdVars>>

\* setupUSBDataListener(): polls the first claimed interface with an IN endpoint
ListenerStarts == usbDevice /\ (usbClaimed \cap IfIn) # {}

\* await this.testUSBConnection(); this.setupUSBDataListener();
\* this.updateConnectionStatus(true, 'usb')
ConnectUSBTest ==
    /\ pcUSB = "test"
    /\ pcUSB' = "sdkIntegrate"
    /\ usbPollingInterval' = (usbPollingInterval \/ ListenerStarts)
    /\ Apply(updateConnectionStatus(TRUE, "usb"))
    /\ UNCHANGED <<usbDevice, usbInterfaceNumber, btCtl, reconnectAttempts,
                   timeVars, sdkVars, usbEnvVars, btEnvVars, fileVars,
                   pcDiscover, usbAttempt, pcDiscUSB, pcBT, pcDiscBT,
                   reconnPcs, pcPrint, obsVars, uc, connectionMonitor, cmdVars>>

\* const sdkWorking = await this.connectBradySDKToCurrentDevice(); finally
ConnectUSBSdkIntegrate ==
    /\ pcUSB = "sdkIntegrate"
    /\ pcUSB' = "idle"
    /\ usbBtnDisabled' = FALSE
    /\ \E link \in {sdkLink, "usb"} :
          sdkLink' = IF Has("connect") THEN link ELSE sdkLink
    /\ UNCHANGED <<isConnected, connectionType, bluetoothBtnDisabled,
                   reconnectBtnShown, usbCtl, btCtl, reconnectAttempts,
                   timeVars, sdkMethods, usbEnvVars, btEnvVars, fileVars,
                   pcDiscover, usbAttempt, pcDiscUSB, pcBT, pcDiscBT,
                   reconnPcs, pcPrint, failedAuto, printObs, uc, connectionMonitor, cmdVars>>

(***************************************************************************)
(* disconnectUSB()                                                         *)
(***************************************************************************)
\* the n lowest claimed interfaces
RECURSIVE Lowest(_, _)
Lowest(S, n) == IF n = 0 \/ S = {} THEN {}
                ELSE {Min(S)} \cup Lowest(S \ {Min(S)}, n - 1)

\* if (this.sdk && this.sdk.disconnect) await ...; updateConnectionStatus(false)
DisconnectUSBAfterClose ==
    IF Has("disconnect")
    THEN /\ pcDiscUSB' = "sdk"
         /\ UNCHANGED statusVars
    ELSE /\ pcDiscUSB' = "idle"
         /\ Apply(updateConnectionStatus(FALSE, "null"))

\* the USB button calls disconnectUSB() when connectionType is 'usb'
DisconnectUSBClick ==
    /\ CanStart
    /\ pcDiscUSB = "idle"
    /\ ~usbBtnDisabled
    /\ connectionType = "usb"
    /\ usbPollingInterval' = FALSE
    /\ IF usbDevice
       THEN /\ pcDiscUSB' = IF usbClaimed # {} THEN "release" ELSE "close"
            /\ UNCHANGED statusVars
       ELSE DisconnectUSBAfterClose
    /\ UNCHANGED <<usbDevice, usbInterfaceNumber, btCtl, reconnectAttempts,
                   timeVars, sdkVars, usbEnvVars, btEnvVars, fileVars,
                   pcDiscover, pcUSB, usbAttempt, pcBT, pcDiscBT, reconnPcs,
                   pcPrint, obsVars, uc, connectionMonitor, cmdVars>>

\* for (interface_ of interfaces) if (interface_.claimed) await release
DisconnectUSBRelease ==
    /\ pcDiscUSB = "release"
    /\ \E n \in 0 .. Cardinality(usbClaimed) :
          /\ usbClaimed' = usbClaimed \ Lowest(usbClaimed, n)
          /\ pcDiscUSB' = IF n = Cardinality(usbClaimed) THEN "close"
                          ELSE "idle"
    /\ UNCHANGED <<statusVars, usbCtl, btCtl, reconnectAttempts, timeVars,
                   sdkVars, usbOpened, ifHeld, ifOut, btEnvVars, fileVars,
                   pcDiscover, pcUSB, usbAttempt, pcBT, pcDiscBT, reconnPcs,
                   pcPrint, obsVars, uc, connectionMonitor, cmdVars>>

\* await this.usbDevice.close(); this.usbDevice = null
DisconnectUSBClose ==
    /\ pcDiscUSB = "close"
    /\ \E ok \in BOOLEAN :
          IF ok
          THEN /\ usbOpened' = FALSE
               /\ usbClaimed' = {}
               /\ usbDevice' = FALSE
               /\ DisconnectUSBAfterClose
          ELSE /\ pcDiscUSB' = "idle"
               /\ UNCHANGED <<usbOpened, usbClaimed, usbDevice, statusVars>>
    /\ UNCHANGED <<usbInterfaceNumber, usbPollingInterval, btCtl,
                   reconnectAttempts, timeVars, sdkVars, ifHeld, ifOut, btEnvVars,
                   fileVars, pcDiscover, pcUSB, usbAttempt, pcBT, pcDiscBT,
                   reconnPcs, pcPrint, obsVars, uc, connectionMonitor, cmdVars>>

\* await this.sdk.disconnect(); this.updateConnectionStatus(false)
DisconnectUSBSdk ==
    /\ pcDiscUSB = "sdk"
    /\ pcDiscUSB' = "idle"
    /\ \E ok \in BOOLEAN :
          IF ok
          THEN /\ sdkLink' = "none"
               /\ Apply(updateConnectionStatus(FALSE, "null"))
          ELSE UNCHANGED <<sdkLink, statusVars>>
    /\ UNCHANGED <<usbCtl, btCtl, reconnectAttempts, timeVars, sdkMethods,
                   usbEnvVars, btEnvVars, fileVars, pcDiscover, pcUSB,
                   usbAttempt, pcBT, pcDiscBT, reconnPcs, pcPrint, obsVars,
                   uc, connectionMonitor, cmdVars>>

(***************************************************************************)
(* The polling interval of setupUSBDataListener(): pollUSBData() and       *)
(* processUSBResponse(data)                                                *)
(***************************************************************************)
USBPollTick ==
    /\ usbPollingInterval
    /\ IF ~usbDevice
       THEN /\ usbPollingInterval' = FALSE
            /\ UNCHANGED statusVars
       ELSE \E answer \in {"none", "READY", "BUSY", "cancelled"} :
               /\ answer = "READY" => usbOpened /\ (usbClaimed \cap IfIn) # {}
               /\ usbPollingInterval' = (answer # "cancelled")
               /\ IF answer = "READY"
                  THEN Apply(updateConnectionStatus(TRUE, "usb"))
                  ELSE UNCHANGED statusVars
    /\ UNCHANGED <<usbDevice, usbInterfaceNumber, btCtl, reconnectAttempts,
                   timeVars, sdkVars, usbEnvVars, btEnvVars, fileVars, pcVars,
                   obsVars, uc, connectionMonitor, cmdVars>>

(***************************************************************************)
(* Events of the vendor SDK                                                *)
(***************************************************************************)
\* printerUpdatesCallback(update): the SDK reports its own link
PrinterStatusChanged ==
    /\ \E status \in {"connected", "disconnected"} :
          /\ status = "connected" <=> sdkLink # "none"
          /\ Apply(updateConnectionStatus(status = "connected", "null"))
    /\ UNCHANGED <<usbCtl, btCtl, reconnectAttempts, timeVars, sdkVars,
                   usbEnvVars, btEnvVars, fileVars, pcVars, obsVars, uc, connectionMonitor, cmdVars>>

\* the SDK loses its link to the printer
SdkLinkLost ==
    /\ sdkLink # "none"
    /\ sdkLink' = "none"
    /\ UNCHANGED <<ctlVars, uiVars, timeVars, sdkMethods, usbEnvVars,
                   btEnvVars, fileVars, pcVars, obsVars, uc, connectionMonitor, cmdVars>>

(***************************************************************************)
(* connectBluetooth()                                                      *)
(***************************************************************************)
ConnectBluetoothFailed ==
    /\ pcBT' = "idle"
    /\ Apply(updateConnectionStatus(FALSE, "null"))

\* the Bluetooth button calls connectBluetooth() unless connectionType is
\* 'bluetooth'
ConnectBluetoothClick ==
    /\ CanStart
    /\ pcBT = "idle"
    /\ ~bluetoothBtnDisabled
    /\ connectionType # "bluetooth"
    /\ bluetoothBtnDisabled' = TRUE
    /\ pcBT' = "requestDevice"
    /\ failedAuto' = 0
    /\ UNCHANGED <<isConnected, connectionType, usbBtnDisabled,
                   reconnectBtnShown, usbCtl, btCtl, reconnectAttempts,
                   timeVars, sdkVars, usbEnvVars, btEnvVars, fileVars,
                   pcDiscover, pcUSB, usbAttempt, pcDiscUSB, pcDiscBT,
                   reconnPcs, pcPrint, printObs,
                   uc, connectionMonitor, cmdVars>>

\* bluetoothDevice = await navigator.bluetooth.requestDevice(...)
ConnectBluetoothRequestDevice ==
    /\ pcBT = "requestDevice"
    /\ \E picked \in BOOLEAN :
          IF picked
          THEN /\ bluetoothDevice' = TRUE
               /\ pcBT' = "gatt"
               /\ UNCHANGED <<statusVars>>
          ELSE /\ ConnectBluetoothFailed
               /\ UNCHANGED bluetoothDevice
    /\ UNCHANGED <<usbCtl, bluetoothServer, bluetoothKeepAlive,
                   reconnectAttempts, timeVars, sdkVars, usbEnvVars,
                   btEnvVars, fileVars, pcDiscover, pcUSB, usbAttempt,
                   pcDiscUSB, pcDiscBT, reconnPcs, pcPrint, failedAuto, printObs, uc, connectionMonitor, cmdVars>>

\* up to 3 times: this.bluetoothServer = await this.bluetoothDevice.gatt.connect()
\* then addEventListener('gattserverdisconnected', ...)
ConnectBluetoothGatt ==
    /\ pcBT = "gatt"
    /\ \E ok \in BOOLEAN :
          IF ok
          THEN /\ bluetoothServer' = TRUE
               /\ gattConnected' = TRUE
               /\ gattListener' = TRUE
               /\ pcBT' = "validate"
               /\ UNCHANGED <<statusVars>>
          ELSE /\ ConnectBluetoothFailed
               /\ UNCHANGED <<bluetoothServer, gattConnected, gattListener>>
    /\ UNCHANGED <<usbCtl, bluetoothDevice, bluetoothKeepAlive,
                   reconnectAttempts, timeVars, sdkVars, usbEnvVars,
                   gattDropPending, fileVars, pcDiscover, pcUSB, usbAttempt,
                   pcDiscUSB, pcDiscBT, reconnPcs, pcPrint, failedAuto, printObs, uc, connectionMonitor, cmdVars>>

\* await this.validateBluetoothConnection(...); this.startBluetoothKeepAlive();
\* this.updateConnectionStatus(true, 'bluetooth'); this.reconnectAttempts = 0
ConnectBluetoothFinish ==
    /\ pcBT = "validate"
    /\ pcBT' = "idle"
    /\ bluetoothKeepAlive' = TRUE
    /\ Apply(updateConnectionStatus(TRUE, "bluetooth"))
    /\ reconnectAttempts' = 0
    /\ failedAuto' = 0
    /\ UNCHANGED <<usbCtl, bluetoothDevice, bluetoothServer, timeVars,
                   sdkVars, usbEnvVars, btEnvVars, fileVars, pcDiscover,
                   pcUSB, usbAttempt, pcDiscUSB, pcDiscBT, reconnPcs,
                   pcPrint, printObs, uc, connectionMonitor, cmdVars>>

(***************************************************************************)
(* Drop signals                                                            *)
(***************************************************************************)
\* the printer goes out of range or powers off
GattLinkLost ==
    /\ gattConnected
    /\ gattConnected' = FALSE
    /\ gattDropPending' = IF gattListener THEN "env" ELSE gattDropPending
    /\ UNCHANGED <<ctlVars, uiVars, timeVars, sdkVars, usbEnvVars,
                   gattListener, fileVars, pcVars, obsVars, uc, connectionMonitor, cmdVars>>

\* the 'gattserverdisconnected' listener added by connectBluetooth()
GattServerDisconnected ==
    /\ gattDropPending # "none"
    /\ gattDropPending' = "none"
    /\ handleBluetoothDisconnection
    /\ UNCHANGED <<usbCtl, btCtl, sdkVars, usbEnvVars, gattConnected,
                   gattListener, fileVars, pcVars, failedAuto,
                   printObs, uc, cmdVars>>

\* this.sdk.on('bluetoothDisconnected', ...): the SDK loses its Bluetooth link
SdkBluetoothDisconnected ==
    /\ Has("on")
    /\ sdkLink = "bluetooth"
    /\ sdkLink' = "none"
    /\ handleBluetoothDisconnection
    /\ UNCHANGED <<usbCtl, btCtl, sdkMethods, usbEnvVars, btEnvVars, fileVars,
                   pcVars, failedAuto, printObs, uc, cmdVars>>

\* the interval of startBluetoothKeepAlive()
KeepAliveTick ==
    /\ bluetoothKeepAlive
    /\ IF bluetoothServer /\ bluetoothDevice /\ connectionType = "bluetooth"
       THEN /\ UNCHANGED bluetoothKeepAlive
            /\ IF ~gattConnected
               THEN handleBluetoothDisconnection
               ELSE UNCHANGED <<statusVars, reconnectAttempts, timeVars,
                                connectionMonitor>>
       ELSE /\ bluetoothKeepAlive' = FALSE
            /\ UNCHANGED <<statusVars, reconnectAttempts, timeVars,
                           connectionMonitor>>
    /\ UNCHANGED <<usbCtl, bluetoothDevice, bluetoothServer, sdkVars,
                   usbEnvVars, btEnvVars, fileVars, pcVars, failedAuto,
                   printObs, uc, cmdVars>>

(***************************************************************************)
(* startConnectionMonitoring(): whether an interval runs after the call.   *)
(* It returns before setInterval when connectionType is 'bluetooth'.       *)
(***************************************************************************)
startConnectionMonitoring(type) == type # "bluetooth"

(***************************************************************************)
(* attemptBluetoothReconnection()                                          *)
(***************************************************************************)
\* entry: if (!this.bluetoothDevice) return; otherwise await sdk.connect(...)
\* or await this.bluetoothDevice.gatt.connect()
AttemptStarts(auto) ==
    IF ~bluetoothDevice
    THEN UNCHANGED reconnPcs
    ELSE /\ autoInFlight + manualInFlight < MaxInFlight
         /\ autoInFlight' = autoInFlight + (IF auto THEN 1 ELSE 0)
         /\ manualInFlight' = manualInFlight + (IF auto THEN 0 ELSE 1)

\* setTimeout(() => { this.attemptBluetoothReconnection() }, waitTime)
ReconnectTimerFires ==
    /\ reconnTimers[0] > 0
    /\ reconnTimers' = [reconnTimers EXCEPT ![0] = @ - 1]
    /\ AttemptStarts(TRUE)
    /\ UNCHANGED <<ctlVars, uiVars, sinceDisc, sdkVars, usbEnvVars,
                   btEnvVars, fileVars, pcDiscover, pcUSB, usbAttempt,
                   pcDiscUSB, pcBT, pcDiscBT, pcPrint, obsVars, uc, connectionMonitor, cmdVars>>

\* the reconnect button: reconnectAttempts = 0; lastDisconnectionTime = 0
ManualReconnectClick ==
    /\ CanStart
    /\ reconnectBtnShown
    /\ reconnectAttempts' = 0
    /\ sinceDisc' = reconnectionCooldown
    /\ failedAuto' = 0
    /\ AttemptStarts(FALSE)
    /\ UNCHANGED <<statusVars, usbCtl, btCtl, reconnTimers, sdkVars,
                   usbEnvVars, btEnvVars, fileVars, pcDiscover, pcUSB,
                   usbAttempt, pcDiscUSB, pcBT, pcDiscBT, pcPrint,
                   printObs, uc, connectionMonitor, cmdVars>>

\* the awaited connect settles
ReconnectDone(auto) ==
    /\ IF auto THEN autoInFlight > 0 ELSE manualInFlight > 0
    /\ autoInFlight' = autoInFlight - (IF auto THEN 1 ELSE 0)
    /\ manualInFlight' = manualInFlight - (IF auto THEN 0 ELSE 1)
    /\ \E ok \in BOOLEAN, link \in {gattConnected, TRUE} :
          /\ IF Has("connect")
             THEN /\ gattConnected' = link
                  /\ sdkLink' = IF ok THEN "bluetooth" ELSE sdkLink
                  /\ UNCHANGED bluetoothServer
             ELSE /\ gattConnected' = (gattConnected \/ ok)
                  /\ bluetoothServer' = (bluetoothServer \/ ok)
                  /\ UNCHANGED sdkLink
          /\ IF ok
             THEN /\ Apply(updateConnectionStatus(TRUE, "bluetooth"))
                  /\ reconnectAttempts' = 0
                  /\ failedAuto' = 0
                  /\ connectionMonitor' = startConnectionMonitoring("bluetooth")
                  /\ UNCHANGED <<timeVars>>
             ELSE /\ handleBluetoothDisconnection
                  /\ failedAuto' =
                        IF auto /\ failedAuto < maxReconnectAttempts
                        THEN failedAuto + 1 ELSE failedAuto
    /\ UNCHANGED <<usbCtl, bluetoothDevice, bluetoothKeepAlive, sdkMethods,
                   usbEnvVars, gattListener, gattDropPending, fileVars,
                   pcDiscover, pcUSB, usbAttempt, pcDiscUSB, pcBT, pcDiscBT,
                   pcPrint, printObs, uc, cmdVars>>

AutoReconnectDone == ReconnectDone(TRUE)
ManualReconnectDone == ReconnectDone(FALSE)

(***************************************************************************)
(* disconnectBluetooth()                                                   *)
(***************************************************************************)
\* this.bluetoothDevice = null; this.bluetoothServer = null;
\* this.updateConnectionStatus(false)
DisconnectBluetoothFinish ==
    /\ pcDiscBT' = "idle"
    /\ bluetoothDevice' = FALSE
    /\ bluetoothServer' = FALSE
    /\ Apply(updateConnectionStatusWith(FALSE, "null", FALSE))

DisconnectBluetoothAfterGatt ==
    IF Has("disconnect")
    THEN /\ pcDiscBT' = "sdk"
         /\ UNCHANGED <<bluetoothDevice, bluetoothServer, statusVars>>
    ELSE DisconnectBluetoothFinish

\* the Bluetooth button calls disconnectBluetooth() when connectionType is
\* 'bluetooth'.  bluetoothServer.disconnect() acts when it is called and
\* returns no promise, so its await resumes before any event is delivered.
DisconnectBluetoothClick ==
    /\ CanStart
    /\ pcDiscBT = "idle"
    /\ ~bluetoothBtnDisabled
    /\ connectionType = "bluetooth"
    /\ connectionMonitor' = FALSE
    /\ bluetoothKeepAlive' = FALSE
    /\ reconnectAttempts' = 0
    /\ IF bluetoothServer /\ gattConnected
       THEN \E ok \in BOOLEAN :
               IF ok
               THEN /\ gattConnected' = FALSE
                    /\ gattDropPending' =
                          IF gattListener THEN "user" ELSE gattDropPending
                    /\ DisconnectBluetoothAfterGatt
               ELSE /\ pcDiscBT' = "idle"
                    /\ UNCHANGED <<gattConnected, gattDropPending,
                                   bluetoothDevice, bluetoothServer,
                                   statusVars>>
       ELSE /\ DisconnectBluetoothAfterGatt
            /\ UNCHANGED <<gattConnected, gattDropPending>>
    /\ UNCHANGED <<usbCtl, timeVars, sdkVars, usbEnvVars, gattListener,
                   fileVars, pcDiscover, pcUSB, usbAttempt, pcDiscUSB, pcBT,
                   reconnPcs, pcPrint, obsVars, uc, cmdVars>>

\* await this.sdk.disconnect()
DisconnectBluetoothSdk ==
    /\ pcDiscBT = "sdk"
    /\ \E ok \in BOOLEAN :
          IF ok
          THEN /\ sdkLink' = "none"
               /\ DisconnectBluetoothFinish
          ELSE /\ pcDiscBT' = "idle"
               /\ UNCHANGED <<sdkLink, bluetoothDevice, bluetoothServer,
                              statusVars>>
    /\ UNCHANGED <<usbCtl, bluetoothKeepAlive, reconnectAttempts, timeVars,
                   sdkMethods, usbEnvVars, btEnvVars, fileVars, pcDiscover,
                   pcUSB, usbAttempt, pcDiscUSB, pcBT, reconnPcs, pcPrint,
                   obsVars, uc, connectionMonitor, cmdVars>>

(***************************************************************************)
(* checkPrinterStatus(): the Bluetooth and network branch                  *)
(***************************************************************************)
CheckPrinterStatus ==
    /\ isConnected
    /\ connectionType \in {"bluetooth", "network"}
    /\ Has("isConnected")
    /\ \E threw \in BOOLEAN :
          IF ~threw /\ sdkLink = "none"
          THEN Apply(updateConnectionStatus(FALSE, "null"))
          ELSE UNCHANGED statusVars
    /\ UNCHANGED <<usbCtl, btCtl, reconnectAttempts, timeVars, sdkVars,
                   usbEnvVars, btEnvVars, fileVars, pcVars, obsVars, uc, connectionMonitor, cmdVars>>

(***************************************************************************)
(* The environment: time and the file-upload collaborator                  *)
(***************************************************************************)
Tick ==
    /\ sinceDisc < reconnectionCooldown \/ reconnTimers # Elapse(reconnTimers)
    /\ sinceDisc' = IF sinceDisc < reconnectionCooldown THEN sinceDisc + 1
                    ELSE sinceDisc
    /\ reconnTimers' = Elapse(reconnTimers)
    /\ UNCHANGED <<ctlVars, uiVars, sdkVars, usbEnvVars, btEnvVars, fileVars,
                   pcVars, obsVars, uc, connectionMonitor, cmdVars>>

\* handleFile(file): this.currentFile = file; this.convertedImage = null
handleFile ==
    /\ \E f \in 1 .. MaxFiles : fileSel' = f
    /\ convertedImage' = FALSE
    /\ UNCHANGED <<ctlVars, uiVars, timeVars, sdkVars, usbEnvVars, btEnvVars,
                   pcVars, obsVars, uc, connectionMonitor, cmdVars>>

\* the conversion of a non-image file ends: this.convertedImage = imageDataUrl
ConvertDone ==
    /\ fileSel # 0
    /\ ~convertedImage
    /\ convertedImage' = TRUE
    /\ UNCHANGED <<ctlVars, uiVars, timeVars, sdkVars, usbEnvVars, btEnvVars,
                   fileSel, pcVars, obsVars, uc, connectionMonitor, cmdVars>>

(***************************************************************************)
(* printImage() and printImageViaUSB(imageElement)                         *)
(***************************************************************************)
printRest == <<ctlVars, uiVars, timeVars, sdkMethods, usbEnvVars, btEnvVars,
               fileVars, pcDiscover, pcUSB, usbAttempt, pcDiscUSB, pcBT,
               pcDiscBT, reconnPcs, failedAuto,
               uc, connectionMonitor, cmdVars>>

\* if (this.connectionType === 'usb' && this.usbDevice)
\*     await this.printImageViaUSB(imageElement)
\* else throw new Error('No available connection method for printing')
PrintFallback(obs) ==
    IF connectionType = "usb" /\ usbDevice
    THEN /\ pcPrint' = "usb"
         /\ printObs' = [obs EXCEPT !.typeAtFallback = connectionType,
                                    !.rawPrints = @ + 1,
                                    !.rawImg = obs.img]
    ELSE /\ pcPrint' = "idle"
         /\ printObs' = [obs EXCEPT !.typeAtFallback = connectionType,
                                    !.outcome = "failed"]

\* the print button: the two guards, then the image element is created
PrintClick ==
    /\ CanStart
    /\ pcPrint = "idle"
    /\ IF fileSel = 0 \/ ~isConnected
       THEN /\ pcPrint' = "idle"
            /\ printObs' = [NoPrint EXCEPT !.outcome = "rejected"]
       ELSE /\ pcPrint' = "load"
            /\ printObs' = [NoPrint EXCEPT !.img = fileSel]
    /\ UNCHANGED <<printRest, sdkLink>>

\* imageElement = await this.createImageElement(uploadedFile) or a conversion
PrintLoad ==
    /\ pcPrint = "load"
    /\ \E loaded \in BOOLEAN :
          IF ~loaded
          THEN /\ pcPrint' = "idle"
               /\ printObs' = [printObs EXCEPT !.outcome = "failed"]
          ELSE IF Has("printBitmap")
          THEN /\ pcPrint' = "sdk"
               /\ UNCHANGED printObs
          ELSE PrintFallback(printObs)
    /\ UNCHANGED <<printRest, sdkLink>>

\* the SDK path: isConnected(), connectBradySDKToCurrentDevice(), up to four
\* printBitmap calls; ready is sdkReady, printed is printSuccess
PrintSdk ==
    /\ pcPrint = "sdk"
    /\ \E ready \in BOOLEAN, printed \in BOOLEAN,
          link \in {sdkLink} \cup
                   (IF Has("connect") /\ Has("isConnected") /\ sdkLink = "none"
                       /\ connectionType # "null"
                    THEN {connectionType} ELSE {}) :
          /\ ~Has("isConnected") => ready
          /\ link # "none" => ready
          /\ sdkLink' = link
          /\ IF ready /\ printed
             THEN /\ pcPrint' = "idle"
                  /\ printObs' = [printObs EXCEPT !.outcome = "sdkOk",
                                                 !.sdkCalls = 1]
             ELSE PrintFallback([printObs EXCEPT !.sdkCalls = 1,
                                                 !.allThrew = ready])
    /\ UNCHANGED printRest

\* await this.sendUSBCommand(bitmapCommand)
PrintUsb ==
    /\ pcPrint = "usb"
    /\ pcPrint' = "idle"
    /\ \E ok \in BOOLEAN :
          LET wrote == ok /\ usbDevice /\ usbOpened
                          /\ (usbClaimed \cap IfOut) # {}
          IN  printObs' = [printObs EXCEPT
                              !.outcome = IF wrote THEN "usbOk" ELSE "failed",
                              !.usbWrites = IF wrote THEN 1 ELSE 0]
    /\ UNCHANGED <<printRest, sdkLink>>

(***************************************************************************)
(* The controller of unnamed/part_000 over USBConnection                   *)
(* (js/usb-connection.js), with the file provider of unnamed/part_002      *)
(***************************************************************************)
ucRest == <<ctlVars, uiVars, timeVars, sdkVars, ifHeld, ifOut, btEnvVars, pcVars,
            obsVars, connectionMonitor, cmd, encVars, conv,
            sdkMissing, usbOutputEndpoint, force>>

UcSteps == {"requestDevice", "configuration", "open", "selectConfiguration",
            "claimInterface"}

\* connectUSB(): this.usb = new USBConnection(); this.usb.connect().then(...)
UcConnectUSB ==
    /\ uc.pc = "idle"
    /\ uc' = [uc EXCEPT !.usb = TRUE, !.device = FALSE, !.interface = FALSE,
                        !.pc = "connecting", !.outcome = "none",
                        !.told = "none"]
    /\ UNCHANGED <<ucRest, usbOpened, usbClaimed, fileVars, usbIn>>

\* USBConnection.connect() settles: its catch swallows the error of the step
\* failAt, so the promise resolves and the .then() callback runs; after the
\* last step startResponseListener() enters the loop of listenForResponses
UcConnectSettles ==
    /\ uc.pc = "connecting"
    /\ \E failAt \in UcSteps \cup {"none"} :
          /\ failAt = "none" => 0 \notin ifHeld
          /\ usbOpened' = (usbOpened \/ failAt \in {"selectConfiguration",
                                                   "claimInterface", "none"})
          /\ usbClaimed' = IF failAt = "none" THEN usbClaimed \cup {0}
                           ELSE usbClaimed
          /\ uc' = [uc EXCEPT
                       !.device = (failAt # "requestDevice"),
                       !.interface = (failAt \notin {"requestDevice",
                                                     "configuration"}),
                       !.pc = "idle",
                       !.outcome = IF failAt = "none" THEN "ok" ELSE "failed",
                       !.told = "connected",
                       !.connectionType = "usb"]
          /\ usbIn' = IF failAt = "none"
                      THEN [usbIn EXCEPT !.listening = TRUE]
                      ELSE usbIn
    /\ UNCHANGED <<ucRest, fileVars>>

\* what USBConnection.sendCommand(command) hands to sendRawData
UcPayload(command) ==
    IF command = "print"
    THEN (IF fileSel # 0 \/ convertedImage THEN "image" ELSE "default")
    ELSE command

\* sendCommandUSB(command); after the write of a fixed command
\* USBConnection.sendCommand sets a timer of 100 ms for readResponse()
sendCommandUSB(command) ==
    /\ Len(uc.writes) < MaxWrites
    /\ IF ~uc.usb
       THEN /\ uc' = [uc EXCEPT !.sent = "noUsb"]
            /\ UNCHANGED usbIn
       ELSE IF ~uc.device \/ ~uc.interface
       THEN /\ uc' = [uc EXCEPT !.sent = "failed"]
            /\ UNCHANGED usbIn
       ELSE \E ok \in BOOLEAN :
               IF ok /\ usbOpened /\ 0 \in usbClaimed
               THEN /\ uc' = [uc EXCEPT
                                 !.sent = "ok",
                                 !.writes = Append(@,
                                     [command |-> command,
                                      payload |-> UcPayload(command),
                                      file |-> fileSel,
                                      converted |-> convertedImage])]
                    /\ usbIn' = IF UcPayload(command) = "image" THEN usbIn
                                ELSE [usbIn EXCEPT !.timers = @ + 1]
               ELSE /\ uc' = [uc EXCEPT !.sent = "failed"]
                    /\ UNCHANGED usbIn
    /\ UNCHANGED <<ucRest, usbOpened, usbClaimed, fileVars>>

UcPrint == sendCommandUSB("print")
UcFeed == sendCommandUSB("feed")
UcCut == sendCommandUSB("cut")

readRest == <<ucRest, uc, usbOpened, usbClaimed, fileVars>>

\* the timer of sendCommand fires: readResponse() calls transferIn and races
\* it against timeoutPromise(this.responseTimeout)
ReadResponse ==
    /\ usbIn.timers > 0
    /\ usbIn' = [usbIn EXCEPT !.timers = @ - 1, !.readers = @ + 1]
    /\ UNCHANGED readRest

\* timeoutPromise rejects first: readResponse returns null and its transferIn
\* stays pending
ReadTimeout ==
    /\ usbIn.readers > 0
    /\ usbIn' = [usbIn EXCEPT !.readers = @ - 1, !.late = @ + 1]
    /\ UNCHANGED readRest

\* the printer sends a reply: it completes one of the pending reads.  The
\* loop of the listener starts its next read at once
PrinterReplies ==
    /\ \E to \in {"listener", "reader", "late"} :
          /\ to = "listener" => usbIn.listening
          /\ to = "reader" => usbIn.readers > 0
          /\ to = "late" => usbIn.late > 0
          /\ usbIn' = [usbIn EXCEPT
                          !.readers = IF to = "reader" THEN @ - 1 ELSE @,
                          !.late = IF to = "late" THEN @ - 1 ELSE @,
                          !.stolen = @ \/ (to # "reader"
                                           /\ usbIn.readers > 0)]
    /\ UNCHANGED readRest

\* new TextEncoder().encode(command): UTF-8 of character codes below 256
RECURSIVE TextEncoderEncode(_)
TextEncoderEncode(command) ==
    IF command = <<>> THEN <<>>
    ELSE LET c == Head(command)
         IN  (IF c < 128 THEN <<c>>
              ELSE <<192 + (c \div 64), 128 + (c % 64)>>)
             \o TextEncoderEncode(Tail(command))

(***************************************************************************)
(* feedLabel(), cutLabel(), sendUSBCommand(command) and fixEndpointIssue() *)
(* cmd[c] is the handler of button c: where it is suspended, the write it  *)
(* is at, the interface of the endpoint it wrote to, and the byte strings  *)
(* it has given to transferOut.  usbOutputEndpoint stays null, so the      *)
(* endpoint is the OUT endpoint of the first claimed interface.            *)
(***************************************************************************)
SdkNoCmd == {"discoverPrinters", "isConnected", "printBitmap", "on"}
CmdProfiles == {SdkFull, SdkNoCmd}

Bridge == {"bridge1", "bridge2", "bridge3"}

\* the command strings, as character codes
CommandString(c, at) ==
    IF c = "status" THEN <<27, 105, 83>>
    ELSE IF c = "feed"
    THEN CASE at = "bridge1" -> <<27, 66, 82, 73, 68, 71, 69, 70, 69, 69, 68>>
           [] at = "bridge2" -> <<27, 49, 70, 62, 48, 70>>
           [] at = "bridge3" -> <<27, 65, 67, 84, 70, 69, 69, 68>>
           [] at = "main" -> <<27, 74, 10>>
           [] at = "comp" -> <<27, 70, 69, 69, 68, 67, 79, 77, 80>>
    ELSE CASE at = "bridge1" -> <<27, 66, 82, 73, 68, 71, 69, 67, 85, 84>>
           [] at = "bridge2" -> <<27, 49, 67, 62, 48, 67>>
           [] at = "bridge3" -> <<27, 65, 67, 84, 67, 85, 84>>
           [] at = "main" -> <<27, 105>>
           [] at = "comp" -> <<27, 67, 85, 84, 67, 79, 77, 80>>

cmdRest == <<ctlVars, uiVars, timeVars, sdkMethods, usbOpened, ifOut,
             btEnvVars,
             fileVars, pcVars, obsVars, uc, connectionMonitor, encVars, conv,
             extVars>>

\* the handler returns: finally { button.disabled = false }
CmdDone(rec, how) == [rec EXCEPT !.pc = "idle", !.at = "none", !.ep = -1,
                                 !.outcome = how]

\* sendUSBCommand(command) up to its await of transferOut, with the device
\* handle and the claimed interfaces as they are when it is called
sendUSBCommand(rec, c, at, device, claimed) ==
    IF device /\ (usbOutputEndpoint # -1 \/ (claimed \cap IfOut) # {})
    THEN [rec EXCEPT !.pc = "transfer", !.at = at,
                     !.ep = IF usbOutputEndpoint # -1 THEN usbOutputEndpoint
                            ELSE Min(claimed \cap IfOut),
                     !.writes = Append(@, TextEncoderEncode(
                                              CommandString(c, at)))]
    ELSE CmdDone(rec, "failed")

\* sendUSBCommand has thrown: the catch of the bridge helper swallows it and
\* the handler goes on with its own command; elsewhere the handler ends
CmdThrown(rec, c, at, device, claimed) ==
    IF at \in Bridge THEN sendUSBCommand(rec, c, "main", device, claimed)
    ELSE CmdDone(rec, "failed")

\* sendUSBCommand has returned: the next write of the handler
CmdNext(rec, c, at, device, claimed) ==
    CASE at = "bridge1" -> sendUSBCommand(rec, c, "bridge2", device, claimed)
      [] at = "bridge2" -> sendUSBCommand(rec, c, "bridge3", device, claimed)
      [] at = "bridge3" -> sendUSBCommand(rec, c, "main", device, claimed)
      [] at = "main" -> IF c = "status"
                        THEN (IF Has("isConnected")
                              THEN [rec EXCEPT !.pc = "statusSdk",
                                               !.at = "none", !.ep = -1]
                              ELSE CmdDone(rec, "usbOk"))
                        ELSE IF usbInterfaceNumber = 1
                        THEN sendUSBCommand(rec, c, "comp", device, claimed)
                        ELSE CmdDone(rec, "usbOk")
      [] at = "comp" -> CmdDone(rec, "usbOk")

\* if (this.connectionType === 'usb' && this.usbDevice) ... else throw
CmdFallback(rec, c) ==
    IF connectionType = "usb" /\ usbDevice
    THEN sendUSBCommand(rec, c, IF usbInterfaceNumber = 1 THEN "bridge1"
                                ELSE "main", usbDevice, usbClaimed)
    ELSE CmdDone(rec, "failed")

\* the feed or the cut button
CmdClick(c) ==
    /\ cmd[c].pc = "idle"
    /\ cmd' = [cmd EXCEPT ![c] =
                  IF ~isConnected THEN CmdDone(CmdIdle, "notConnected")
                  ELSE IF Has(c) THEN [CmdIdle EXCEPT !.pc = "sdk"]
                  ELSE CmdFallback(CmdIdle, c)]
    /\ UNCHANGED <<cmdRest, sdkLink, usbClaimed, ifHeld>>

feedLabel == CmdClick("feed")
cutLabel == CmdClick("cut")

\* the SDK path: isConnected(), connectBradySDKToCurrentDevice(), then
\* await this.sdk.feed() or this.sdk.cut(); ready is sdkReady.  A call that
\* throws 'Cannot read properties of undefined' is followed by
\* activateBradySDKForUSB() and a second call of the same method.
CmdSdk ==
    \E c \in Cmds :
       /\ cmd[c].pc = "sdk"
       /\ \E ready \in BOOLEAN, result \in {"ok", "threw", "context"},
             link \in {sdkLink} \cup
                      (IF Has("connect") /\ Has("isConnected")
                          /\ sdkLink = "none" /\ connectionType # "null"
                       THEN {connectionType} ELSE {}) :
             /\ ~Has("isConnected") => ready
             /\ link # "none" => ready
             /\ sdkLink' = link
             /\ cmd' = [cmd EXCEPT ![c] =
                           IF ~ready THEN CmdFallback(cmd[c], c)
                           ELSE LET called == [cmd[c] EXCEPT !.sdkCalls = @ + 1]
                                IN  CASE result = "ok" ->
                                           CmdDone(called, "sdkOk")
                                      [] result = "threw" ->
                                           CmdFallback(called, c)
                                      [] result = "context" ->
                                           [called EXCEPT !.pc = "sdkRetry"]]
       /\ UNCHANGED <<cmdRest, usbClaimed, ifHeld>>

\* await this.activateBradySDKForUSB(); try { await this.sdk.feed() } catch:
\* the first error is thrown again and the handler falls through to USB
CmdSdkRetry ==
    \E c \in Cmds, ok \in BOOLEAN :
       /\ cmd[c].pc = "sdkRetry"
       /\ cmd' = [cmd EXCEPT ![c] =
                     LET called == [cmd[c] EXCEPT !.sdkCalls = @ + 1]
                     IN  IF ok THEN CmdDone(called, "sdkOk")
                         ELSE CmdFallback(called, c)]
       /\ UNCHANGED <<cmdRest, sdkLink, usbClaimed, ifHeld>>

\* checkPrinterStatus() while connected over USB: the status inquiry
\* ESC i S is written first
CheckPrinterStatusUSB ==
    /\ cmd["status"].pc = "idle"
    /\ isConnected
    /\ connectionType = "usb"
    /\ cmd' = [cmd EXCEPT !["status"] =
                  sendUSBCommand(CmdIdle, "status", "main", usbDevice,
                                 usbClaimed)]
    /\ UNCHANGED <<cmdRest, sdkLink, usbClaimed, ifHeld>>

\* 500 ms after the write: await this.sdk.isConnected(), whose answer or
\* error is logged
CheckPrinterStatusSdk ==
    /\ cmd["status"].pc = "statusSdk"
    /\ cmd' = [cmd EXCEPT !["status"] =
                  CmdDone([@ EXCEPT !.sdkCalls = @ + 1], "usbOk")]
    /\ UNCHANGED <<cmdRest, sdkLink, usbClaimed, ifHeld>>

\* await this.usbDevice.transferOut(endpointNumber, data) settles
TransferDone ==
    \E c \in Intents, result \in {"ok", "error", "stale"} :
       LET rec == cmd[c]
       IN  /\ rec.pc = "transfer"
           /\ result = "ok" => (usbOpened /\ rec.ep \in usbClaimed)
           /\ result = "stale" => rec.ep \notin usbClaimed
           /\ cmd' = [cmd EXCEPT ![c] =
                         CASE result = "ok" ->
                                CmdNext(rec, c, rec.at, usbDevice, usbClaimed)
                           [] result = "error" ->
                                CmdThrown(rec, c, rec.at, usbDevice,
                                          usbClaimed)
                           [] result = "stale" ->
                                IF usbDevice
                                THEN [rec EXCEPT !.pc = "fixRelease"]
                                ELSE CmdThrown(rec, c, rec.at, usbDevice,
                                               usbClaimed)]
           /\ UNCHANGED <<cmdRest, sdkLink, usbClaimed, ifHeld>>

\* fixEndpointIssue(): await releaseInterface(usbInterfaceNumber) settles,
\* its failure is logged; after 500 ms claimInterface is called
FixRelease ==
    \E c \in Intents, ok \in BOOLEAN :
       /\ cmd[c].pc = "fixRelease"
       /\ ok => usbInterfaceNumber \in usbClaimed
       /\ usbClaimed' = IF ok THEN usbClaimed \ {usbInterfaceNumber}
                        ELSE usbClaimed
       /\ cmd' = [cmd EXCEPT ![c] =
                     IF usbDevice THEN [cmd[c] EXCEPT !.pc = "fixClaim"]
                     ELSE CmdThrown(cmd[c], c, cmd[c].at, usbDevice,
                                    usbClaimed')]
       /\ UNCHANGED <<cmdRest, sdkLink, ifHeld>>

\* fixEndpointIssue(): await claimInterface(usbInterfaceNumber) settles; the
\* call of setupValidatedEndpoints, which the class does not define, throws
\* into the same catch; then sendUSBCommand throws 'please reconnect'
FixClaim ==
    \E c \in Intents :
       /\ cmd[c].pc = "fixClaim"
       /\ usbClaimed' = IF usbOpened /\ usbInterfaceNumber \notin ifHeld
                        THEN usbClaimed \cup {usbInterfaceNumber}
                        ELSE usbClaimed
       /\ cmd' = [cmd EXCEPT ![c] =
                     CmdThrown(cmd[c], c, cmd[c].at, usbDevice, usbClaimed')]
       /\ UNCHANGED <<cmdRest, sdkLink, ifHeld>>

\* the device loses the claim of an interface (a reset, a re-enumeration),
\* and a driver of the host may take the interface
UsbInterfaceLost ==
    \E n \in usbClaimed, taken \in BOOLEAN :
       /\ usbClaimed' = usbClaimed \ {n}
       /\ ifHeld' = IF taken THEN ifHeld \cup {n} ELSE ifHeld
       /\ UNCHANGED <<cmdRest, sdkLink, cmd>>

(***************************************************************************)
(* forceInterface0Claiming() and attemptAggressiveInterface0Claim(): the   *)
(* button that tries to take interface 0 while another interface is bound. *)
(***************************************************************************)
AggressiveAttempts == 5

forceRest == <<usbCtl, btCtl, reconnectAttempts, timeVars, sdkVars, ifOut,
               btEnvVars, fileVars, pcVars, obsVars, uc, connectionMonitor,
               cmd, encVars, conv, sdkMissing, usbIn>>

\* the OUT endpoint sendUSBCommand writes to, as the interface it is on
WriteInterface ==
    IF usbOutputEndpoint # -1 THEN usbOutputEndpoint
    ELSE IF (usbClaimed \cap IfOut) # {} THEN Min(usbClaimed \cap IfOut)
    ELSE -1

\* the button, pressed while a device is held and usbInterfaceNumber is
\* not 0; step 1 releases interface 0 if the device has it claimed
ForceInterface0Click ==
    /\ force.pc = "idle"
    /\ usbInterfaceNumber # 0
    /\ usbDevice
    /\ force' = [pc |-> IF 0 \in usbClaimed THEN "release" ELSE "reset",
                 attempt |-> 0]
    /\ UNCHANGED <<forceRest, statusVars, usbEnvVars, usbOutputEndpoint>>

\* await this.usbDevice.releaseInterface(0) settles; a failure is logged
ForceRelease ==
    /\ force.pc = "release"
    /\ \E ok \in BOOLEAN :
          usbClaimed' = IF ok THEN usbClaimed \ {0} ELSE usbClaimed
    /\ force' = [force EXCEPT !.pc = "reset"]
    /\ UNCHANGED <<forceRest, statusVars, usbOpened, ifHeld,
                   usbOutputEndpoint>>

\* step 2: reset(), open() and selectConfiguration(1), each failure logged;
\* whether the host keeps the claims of the device over a reset and a
\* SET_CONFIGURATION depends on the platform
ForceReset ==
    /\ force.pc = "reset"
    /\ \E kept \in BOOLEAN, opened \in BOOLEAN :
          /\ usbClaimed' = IF kept THEN usbClaimed ELSE {}
          /\ usbOpened' = (usbOpened \/ opened)
    /\ force' = [pc |-> "claim", attempt |-> 1]
    /\ UNCHANGED <<forceRest, statusVars, ifHeld, usbOutputEndpoint>>

\* the aggressive attempts have ended: success updates the status
ForceEnds(success) ==
    /\ force' = ForceIdle
    /\ IF success THEN Apply(updateConnectionStatus(TRUE, "usb"))
       ELSE UNCHANGED statusVars

\* step 3, one iteration of for (attempt = 1; attempt <= 5; attempt++):
\* claimInterface(0), then the test write ESC @ on its OUT endpoint and
\* this.usbOutputEndpoint = outEndpoint
ForceClaim ==
    /\ force.pc = "claim"
    /\ \E sent \in BOOLEAN :
          LET claimed == usbOpened /\ 0 \notin ifHeld
              success == claimed /\ 0 \in IfOut /\ sent
          IN  /\ usbClaimed' = IF claimed THEN usbClaimed \cup {0}
                               ELSE usbClaimed
              /\ usbOutputEndpoint' = IF success THEN 0
                                      ELSE usbOutputEndpoint
              /\ IF success THEN ForceEnds(TRUE)
                 ELSE IF force.attempt < AggressiveAttempts
                 THEN /\ force' = [force EXCEPT !.attempt = @ + 1]
                      /\ UNCHANGED statusVars
                 ELSE ForceEnds(FALSE)
    /\ UNCHANGED <<forceRest, usbOpened, ifHeld>>

\* the program that holds an interface lets go of it
InterfaceFreed ==
    /\ \E n \in ifHeld : ifHeld' = ifHeld \ {n}
    /\ UNCHANGED <<forceRest, statusVars, usbOpened, usbClaimed,
                   usbOutputEndpoint, force>>

(***************************************************************************)
(* The raster encoders: processData.convertToBitmap and                    *)
(* generateImageCommands (js/dataprocess.js), convertToMonochrome and      *)
(* convertToBradyBitmap (js/printer-controller.js).  A raster is its       *)
(* width, its height and the set of its pixels whose grey level is below   *)
(* 128.                                                                    *)
(***************************************************************************)
Pixels(w, h) == (0 .. (w - 1)) \X (0 .. (h - 1))

RECURSIVE UpTo(_, _)
UpTo(P, k) == IF k = 0 THEN {{}}
              ELSE LET S == UpTo(P, k - 1)
                   IN  S \cup {s \cup {p} : s \in S, p \in P}

\* rasters with at most MaxInk dark pixels, and their negatives
DarkSets(w, h) == LET few == UpTo(Pixels(w, h), MaxInk)
                  IN  few \cup {Pixels(w, h) \ s : s \in few}

Images == UNION {{[width |-> wh[1], height |-> wh[2], dark |-> d] :
                     d \in DarkSets(wh[1], wh[2])} :
                 wh \in (1 .. MaxWidth) \X (1 .. MaxHeight)}

\* const bytesPerRow = Math.ceil(width / 8)
bytesPerRow(width) == (width + 7) \div 8

\* xL xH: value & 0xFF, (value >> 8) & 0xFF
LowHigh(value) == <<value % 256, (value \div 256) % 256>>

\* a packer that starts a new byte only when eight bits are full
RECURSIVE packPixels_NoRowFlush(_, _, _, _, _)
packPixels_NoRowFlush(img, i, bitIndex, currentByte, out) ==
    IF i = img.width * img.height
    THEN (IF bitIndex = 0 THEN out ELSE Append(out, currentByte))
    ELSE LET x == i % img.width
             y == i \div img.width
             isBlack == IF <<x, y>> \in img.dark THEN 1 ELSE 0
             byte == currentByte + isBlack * 2 ^ (7 - bitIndex)
         IN  IF bitIndex + 1 = 8
             THEN packPixels_NoRowFlush(img, i + 1, 0, 0, Append(out, byte))
             ELSE packPixels_NoRowFlush(img, i + 1, bitIndex + 1, byte, out)

\* the loop of convertToBitmap from pixel i on: bitIndex, currentByte and
\* the bytes stored so far
RECURSIVE packPixels(_, _, _, _, _)
packPixels(img, i, bitIndex, currentByte, out) ==
    IF i = img.width * img.height THEN out
    ELSE LET x == i % img.width
             y == i \div img.width
             isBlack == IF <<x, y>> \in img.dark THEN 1 ELSE 0
             byte == currentByte + isBlack * 2 ^ (7 - bitIndex)
         IN  IF bitIndex + 1 = 8 \/ x = img.width - 1
             THEN packPixels(img, i + 1, 0, 0, Append(out, byte))
             ELSE packPixels(img, i + 1, bitIndex + 1, byte, out)

\* convertToBitmap(ctx, width, height): a Uint8Array of bytesPerRow * height
convertToBitmap(img) ==
    LET out == packPixels(img, 0, 0, 0, <<>>)
        n == bytesPerRow(img.width) * img.height
    IN  [data |-> [k \in 1 .. n |-> IF k <= Len(out) THEN out[k] ELSE 0],
         width |-> img.width, height |-> img.height,
         bytesPerRow |-> bytesPerRow(img.width)]

\* generateImageCommands(bitmapData)
generateImageCommands(bitmapData) ==
    <<27, 64>> \o <<29, 118, 48, 0>> \o LowHigh(bitmapData.bytesPerRow)
    \o LowHigh(bitmapData.height) \o bitmapData.data \o <<10>>

\* convertToMonochrome: the red channel of pixel (x, y)
convertToMonochrome(img, x, y) == IF <<x, y>> \in img.dark THEN 0 ELSE 255

\* the byte of convertToBradyBitmap for byteX of line y, from bit on
RECURSIVE bradyByte(_, _, _, _)
bradyByte(img, y, byteX, bit) ==
    IF bit = 8 THEN 0
    ELSE LET x == byteX * 8 + bit
         IN  (IF x < img.width /\ convertToMonochrome(img, x, y) < 128
              THEN 2 ^ (7 - bit) ELSE 0)
             + bradyByte(img, y, byteX, bit + 1)

\* the lineData of all lines, as character codes
bradyLines(img) ==
    LET bytesPerLine == bytesPerRow(img.width)
    IN  [k \in 1 .. bytesPerLine * img.height |->
            bradyByte(img, (k - 1) \div bytesPerLine,
                      (k - 1) % bytesPerLine, 0)]

\* convertToBradyBitmap(imageData): the command string, as character codes
convertToBradyBitmap(img) ==
    <<27, 64>> \o <<27, 105, 71>> \o LowHigh(bytesPerRow(img.width))
    \o LowHigh(img.height) \o bradyLines(img)
    \o <<27, 105, 69>> \o <<27, 105, 80>>

encRest == <<ctlVars, uiVars, timeVars, sdkVars, usbEnvVars, btEnvVars,
             fileVars, pcVars, obsVars, uc, connectionMonitor, cmd, image,
             pixel, ink, conv, extVars>>

\* USBConnection.printUploadedFile(): the bytes given to sendRawData
EncodeRaster ==
    /\ image # NoImage
    /\ LET bitmapData == convertToBitmap(image)
       IN  frame' = [encoder |-> "raster",
                     payload |-> bitmapData.data,
                     wire |-> generateImageCommands(bitmapData)]
    /\ UNCHANGED encRest

\* printImageViaUSB(imageElement): the bytes sendUSBCommand gives to
\* transferOut
EncodeBrady ==
    /\ image # NoImage
    /\ frame' = [encoder |-> "brady",
                 payload |-> bradyLines(image),
                 wire |-> TextEncoderEncode(convertToBradyBitmap(image))]
    /\ UNCHANGED encRest

(***************************************************************************)
(* The threshold of the two encoders on one pixel                          *)
(***************************************************************************)
ChannelLevels == {0, 124, 127, 128, 255}
Samples == [r : ChannelLevels, g : ChannelLevels, b : ChannelLevels]

\* convertToBitmap: grayscale = (r + g + b) / 3; isBlack = grayscale < 128
isBlack(p) == IF p.r + p.g + p.b < 3 * 128 THEN 1 ELSE 0

\* convertToMonochrome: gray = Math.round(0.299 * r + 0.587 * g + 0.114 * b)
gray(p) == (299 * p.r + 587 * p.g + 114 * p.b + 500) \div 1000

\* convertToMonochrome: mono = gray < 128 ? 0 : 255
mono(p) == IF gray(p) < 128 THEN 0 ELSE 255

\* convertToBradyBitmap: the bit is set if (monoData.data[index] < 128)
bradyBit(p) == IF mono(p) < 128 THEN 1 ELSE 0

thrRest == <<ctlVars, uiVars, timeVars, sdkVars, usbEnvVars, btEnvVars,
             fileVars, pcVars, obsVars, uc, connectionMonitor, cmd, image,
             frame, pixel, conv, extVars>>

ThresholdRaster ==
    /\ ink.raster = -1
    /\ ink' = [ink EXCEPT !.raster = isBlack(pixel)]
    /\ UNCHANGED thrRest

ThresholdBrady ==
    /\ ink.brady = -1
    /\ ink' = [ink EXCEPT !.brady = bradyBit(pixel)]
    /\ UNCHANGED thrRest

(***************************************************************************)
(* From an image to a command stream: processData.convertImageToBitmap     *)
(* (js/dataprocess.js) as USBConnection.printUploadedFile calls it, and    *)
(* printImageViaUSB (js/printer-controller.js).  conv is the call: its     *)
(* source image, the size of its canvas, whether a command stream was      *)
(* built and how many writes it has issued.                                *)
(***************************************************************************)
maxWidth == 384
maxHeight == 300
SourceDims == {0, 1, 1000}
Sources == [decodes : BOOLEAN, width : SourceDims, height : SourceDims]

\* scale = Math.min(maxWidth / img.width, maxHeight / img.height);
\* canvas.width = Math.floor(img.width * scale), likewise the height; a
\* NaN assigned to a canvas dimension is 0
canvasSize(w, h) ==
    IF w = 0 /\ h = 0 THEN <<0, 0>>
    ELSE IF w = 0 THEN <<0, maxHeight>>
    ELSE IF h = 0 THEN <<maxWidth, 0>>
    ELSE IF maxWidth * h <= maxHeight * w
         THEN <<maxWidth, (h * maxWidth) \div w>>
         ELSE <<(w * maxHeight) \div h, maxHeight>>

convRest == <<ctlVars, uiVars, timeVars, sdkVars, usbEnvVars, btEnvVars,
              fileVars, pcVars, obsVars, uc, connectionMonitor, cmd,
              encVars, extVars>>

\* printUploadedFile() calls convertImageToBitmap(imageSource): the promise
\* is created and img.src is set
ConvertImageToBitmap ==
    /\ conv.pc = "idle"
    /\ \E src \in Sources :
          conv' = [NoConv EXCEPT !.pc = "loading", !.path = "bitmap",
                                 !.src = src]
    /\ UNCHANGED convRest

\* img.onload: the canvas is sized and drawn, convertToBitmap reads it with
\* getImageData, which throws IndexSizeError for a zero width or height; the
\* exception leaves the event handler and the promise is never settled.
\* Otherwise resolve(bitmapData), generateImageCommands and sendRawData
ImgOnload ==
    /\ conv.pc = "loading"
    /\ conv.src.decodes
    /\ LET size == canvasSize(conv.src.width, conv.src.height)
       IN  conv' = IF size[1] = 0 \/ size[2] = 0
                   THEN [conv EXCEPT !.pc = "pending", !.canvas = size]
                   ELSE [conv EXCEPT !.pc = "resolved", !.canvas = size,
                                     !.stream = TRUE, !.writes = 1]
    /\ UNCHANGED convRest

\* img.onerror = () => reject(new Error('Failed to load image'))
ImgOnerror ==
    /\ conv.pc = "loading"
    /\ ~conv.src.decodes
    /\ conv' = [conv EXCEPT !.pc = "rejected"]
    /\ UNCHANGED convRest

\* printImageViaUSB(imageElement) with a loaded or a broken image element:
\* three bridge writes on interface 1; width = naturalWidth || width || 300
\* and height = naturalHeight || height || 200; drawImage throws for a
\* broken image and draws nothing for one of zero width or height; then
\* convertToBradyBitmap and the writes of the stream
PrintImageViaUSB ==
    /\ conv.pc = "idle"
    /\ connectionType = "usb"
    /\ usbDevice
    /\ \E src \in Sources :
          LET bridged == usbInterfaceNumber = 1
              size == <<IF src.width = 0 THEN 300 ELSE src.width,
                        IF src.height = 0 THEN 200 ELSE src.height>>
          IN  conv' = IF ~src.decodes
                      THEN [NoConv EXCEPT !.pc = "rejected", !.path = "usb",
                               !.src = src, !.canvas = size,
                               !.writes = IF bridged THEN 3 ELSE 0]
                      ELSE [NoConv EXCEPT !.pc = "resolved", !.path = "usb",
                               !.src = src, !.canvas = size, !.stream = TRUE,
                               !.writes = IF bridged THEN 6 ELSE 1]
    /\ UNCHANGED convRest

(***************************************************************************)
(* Specifications                                                          *)
(***************************************************************************)
\* the transports side by side, within one tick of the clock: every connect
\* and disconnect handler, the drop signals and the SDK events
Next ==
    \/ DiscoverClick \/ DiscoverDone
    \/ ConnectUSBClick \/ ConnectUSBSdkDiscovery \/ ConnectUSBRequestDevice
    \/ ConnectUSBOpen \/ ConnectUSBClaim0 \/ ConnectUSBClaimAlt
    \/ ConnectUSBTest \/ ConnectUSBSdkIntegrate
    \/ DisconnectUSBClick \/ DisconnectUSBRelease \/ DisconnectUSBClose
    \/ DisconnectUSBSdk
    \/ USBPollTick
    \/ PrinterStatusChanged \/ SdkLinkLost
    \/ ConnectBluetoothClick \/ ConnectBluetoothRequestDevice
    \/ ConnectBluetoothGatt \/ ConnectBluetoothFinish
    \/ GattLinkLost \/ GattServerDisconnected \/ SdkBluetoothDisconnected
    \/ KeepAliveTick
    \/ ManualReconnectClick \/ ManualReconnectDone
    \/ DisconnectBluetoothClick \/ DisconnectBluetoothSdk
    \/ CheckPrinterStatus

Spec == Init /\ [][Next]_vars

\* the Bluetooth transport with the clock: drops, cooldown, timers, attempts
NextReconnect ==
    \/ PrinterStatusChanged \/ SdkLinkLost
    \/ ConnectBluetoothClick \/ ConnectBluetoothRequestDevice
    \/ ConnectBluetoothGatt \/ ConnectBluetoothFinish
    \/ GattLinkLost \/ GattServerDisconnected \/ SdkBluetoothDisconnected
    \/ KeepAliveTick
    \/ ReconnectTimerFires \/ ManualReconnectClick
    \/ AutoReconnectDone \/ ManualReconnectDone
    \/ DisconnectBluetoothClick \/ DisconnectBluetoothSdk
    \/ CheckPrinterStatus
    \/ Tick

InitReconnect == Init /\ ifHeld = {}

SpecReconnect == InitReconnect /\ [][NextReconnect]_vars

\* printing over the network and USB transports
NextPrint ==
    \/ DiscoverClick \/ DiscoverDone
    \/ ConnectUSBClick \/ ConnectUSBSdkDiscovery \/ ConnectUSBRequestDevice
    \/ ConnectUSBOpen \/ ConnectUSBClaim0 \/ ConnectUSBClaimAlt
    \/ ConnectUSBTest \/ ConnectUSBSdkIntegrate
    \/ DisconnectUSBClick \/ DisconnectUSBRelease \/ DisconnectUSBClose
    \/ DisconnectUSBSdk
    \/ USBPollTick
    \/ PrinterStatusChanged \/ SdkLinkLost
    \/ PrintClick \/ PrintLoad \/ PrintSdk \/ PrintUsb
    \/ handleFile \/ ConvertDone

SpecPrint == Init /\ [][NextPrint]_vars

\* the USBConnection based controller
NextUC ==
    \/ UcConnectUSB \/ UcConnectSettles
    \/ UcPrint \/ UcFeed \/ UcCut
    \/ ReadResponse \/ ReadTimeout \/ PrinterReplies
    \/ handleFile \/ ConvertDone

SpecUC == Init /\ [][NextUC]_vars

\* the negotiation of the USB interface; an awaited claimInterface settles
\* and the back-off timers between the attempts fire
NextNegotiate ==
    \/ ConnectUSBClick \/ ConnectUSBSdkDiscovery \/ ConnectUSBRequestDevice
    \/ ConnectUSBOpen \/ ConnectUSBClaim0 \/ ConnectUSBClaimAlt
    \/ ConnectUSBTest \/ ConnectUSBSdkIntegrate
    \/ USBPollTick
    \/ PrinterStatusChanged \/ SdkLinkLost

SpecNegotiate ==
    /\ Init
    /\ [][NextNegotiate]_vars
    /\ WF_vars(ConnectUSBClaim0)
    /\ WF_vars(ConnectUSBClaimAlt)

\* the negotiation on every layout of OUT endpoints
InitLayout == InitOf([Plain EXCEPT !.outs = SUBSET Ifaces])

SpecLayout == InitLayout /\ [][NextNegotiate]_vars

\* the encoders applied to every raster of Images
NextEncode == EncodeRaster \/ EncodeBrady

InitEncode == InitWith({SdkBasic}, Images)

SpecEncode == InitEncode /\ [][NextEncode]_vars

\* the raw USB command path: the connection, the feed and cut handlers, the
\* transfers and the loss of an interface
NextCmd ==
    \/ ConnectUSBClick \/ ConnectUSBSdkDiscovery \/ ConnectUSBRequestDevice
    \/ ConnectUSBOpen \/ ConnectUSBClaim0 \/ ConnectUSBClaimAlt
    \/ ConnectUSBTest \/ ConnectUSBSdkIntegrate
    \/ feedLabel \/ cutLabel \/ CmdSdk \/ CmdSdkRetry \/ TransferDone
    \/ FixRelease \/ FixClaim
    \/ UsbInterfaceLost

InitCmd == InitWith(CmdProfiles, {NoImage})

SpecCmd == InitCmd /\ [][NextCmd]_vars

\* the dispatch of an intent over USB: the feed and the status handlers
NextDispatch ==
    \/ ConnectUSBClick \/ ConnectUSBSdkDiscovery \/ ConnectUSBRequestDevice
    \/ ConnectUSBOpen \/ ConnectUSBClaim0 \/ ConnectUSBClaimAlt
    \/ ConnectUSBTest \/ ConnectUSBSdkIntegrate
    \/ feedLabel \/ CmdSdk \/ CmdSdkRetry \/ TransferDone
    \/ CheckPrinterStatusUSB \/ CheckPrinterStatusSdk
    \/ FixRelease \/ FixClaim
    \/ UsbInterfaceLost

SpecDispatch == InitCmd /\ [][NextDispatch]_vars

\* the negotiation, then the force-interface-0 button
NextReclaim ==
    \/ ConnectUSBClick \/ ConnectUSBSdkDiscovery \/ ConnectUSBRequestDevice
    \/ ConnectUSBOpen \/ ConnectUSBClaim0 \/ ConnectUSBClaimAlt
    \/ ConnectUSBTest \/ ConnectUSBSdkIntegrate
    \/ ForceInterface0Click \/ ForceRelease \/ ForceReset \/ ForceClaim
    \/ InterfaceFreed

SpecReclaim == Init /\ [][NextReclaim]_vars

\* the two encoders on every sample pixel
NextThreshold == ThresholdRaster \/ ThresholdBrady

InitThreshold == InitOf([Plain EXCEPT !.pixels = Samples])

SpecThreshold == InitThreshold /\ [][NextThreshold]_vars

\* the conversion of an image on both paths, with the USB connection the
\* second path needs
NextConvert ==
    \/ ConnectUSBClick \/ ConnectUSBRequestDevice
    \/ ConnectUSBOpen \/ ConnectUSBClaim0 \/ ConnectUSBClaimAlt
    \/ ConnectUSBTest \/ ConnectUSBSdkIntegrate
    \/ ConvertImageToBitmap \/ ImgOnload \/ ImgOnerror
    \/ PrintImageViaUSB

InitConvert == InitOf([Plain EXCEPT !.profiles = {SdkNoCmd}])

\* an image event that is due is delivered
SpecConvert ==
    InitConvert /\ [][NextConvert]_vars
    /\ WF_vars(ImgOnload) /\ WF_vars(ImgOnerror)

\* the handlers that call the SDK, on an SDK that lacks any one method
CapabilityProfiles == {SdkFull} \cup {SdkFull \ {m} : m \in SdkFull}

NextCapability ==
    \/ DiscoverClick \/ DiscoverDone
    \/ feedLabel \/ cutLabel \/ CmdSdk \/ CmdSdkRetry
    \/ PrinterStatusChanged \/ SdkLinkLost
    \/ CheckPrinterStatus

InitCapability == InitOf([Plain EXCEPT !.profiles = CapabilityProfiles])

SpecCapability == InitCapability /\ [][NextCapability]_vars

(***************************************************************************)
(* Properties                                                              *)
(***************************************************************************)

\* C1: whenever the controller is marked connected with connection type
\* 'usb', it holds a USB device handle that is open, and the interface
\* number of its binding is claimed.
C1_UsbConnectedHasBinding ==
    (isConnected /\ connectionType = "usb")
        => (usbDevice /\ usbOpened /\ usbInterfaceNumber \in usbClaimed)

\* C2: the connected flag and the transport type agree: isConnected is true
\* exactly when connectionType is 'network', 'bluetooth' or 'usb'.
C2_FlagAndTypeAgree == isConnected <=> (connectionType \in Types)

\* C3: at most one transport channel is open: the USB device and the GATT
\* server are never open together, and while the controller is connected no
\* channel of a transport other than connectionType is open.
C3_SingleChannel ==
    /\ ~(usbOpened /\ gattConnected)
    /\ (isConnected /\ connectionType # "usb") => ~usbOpened
    /\ (isConnected /\ connectionType # "bluetooth") => ~gattConnected

\* C4: a connection attempt that failed at one of its steps leaves the
\* controller disconnected and its caller is not told that it is connected.
C4_FailedAttemptDisconnected ==
    uc.outcome = "failed"
        => (uc.told # "connected" /\ uc.connectionType = "null")

\* C5: when disconnectUSB or disconnectBluetooth returns, the controller is
\* Disconnected: isConnected is false and connectionType is null.
C5_DisconnectEndsDisconnected ==
    [][((pcDiscUSB # "idle" /\ pcDiscUSB' = "idle")
          \/ (pcDiscBT # "idle" /\ pcDiscBT' = "idle"))
         => (~isConnected' /\ connectionType' = "null")]_vars

\* C6: once maxReconnectAttempts automatic attempts have failed in a row and
\* the controller is disconnected, no timer is scheduled and no automatic
\* attempt starts until the user connects or presses the reconnect button.
C6_ReconnectionBounded ==
    [][(failedAuto = maxReconnectAttempts /\ ~isConnected
          /\ failedAuto' = maxReconnectAttempts)
         => (TimerCount' <= TimerCount /\ autoInFlight' <= autoInFlight)]_vars

\* C7: a reconnection timer is scheduled only by the retry of a failed
\* automatic attempt or by a drop signal that arrives while the controller
\* is connected over Bluetooth; the GATT event of the user's own disconnect
\* and the failure of a manual attempt schedule nothing.
C7_OnlyUnsolicitedDropReconnects ==
    [][TimerCount' > TimerCount
         => \/ autoInFlight' < autoInFlight
            \/ /\ isConnected
               /\ connectionType = "bluetooth"
               /\ gattDropPending # "user"
               /\ manualInFlight' = manualInFlight]_vars

\* C8: whenever the controller is marked connected with connection type
\* 'bluetooth' and is not in the middle of disconnectBluetooth, then
\* bluetoothServer is non-null and the GATT link is up, or the event of its
\* loss has not been delivered to the page yet.
C8_BluetoothConnectedHasLiveServer ==
    (isConnected /\ connectionType = "bluetooth" /\ pcDiscBT = "idle")
        => (bluetoothServer /\ (gattConnected \/ gattDropPending # "none"))

\* C9: no transfer is issued for a print request made with neither a current
\* file nor a converted image, and a rejected print has called neither the
\* SDK nor the USB device.
C9_PrintPreconditions ==
    /\ \A i \in 1 .. Len(uc.writes) :
          uc.writes[i].command = "print"
              => (uc.writes[i].file # 0 \/ uc.writes[i].converted)
    /\ printObs.outcome = "rejected"
          => (printObs.sdkCalls = 0 /\ printObs.usbWrites = 0
              /\ printObs.rawPrints = 0)

\* C10: when the SDK's printBitmap calls have all thrown, the raw USB print
\* path runs exactly once on the same image if the transport is USB, and
\* otherwise no raw write is made and the print has failed.
C10_PrintFallback ==
    printObs.allThrew
        => IF printObs.typeAtFallback = "usb"
           THEN printObs.rawPrints = 1 /\ printObs.rawImg = printObs.img
           ELSE /\ printObs.rawPrints = 0
                /\ printObs.usbWrites = 0
                /\ printObs.outcome = "failed"


C13_NoInterfaceIsTerminal ==
    [][/\ (pcUSB = "claimAlt" /\ AltCandidates = {} /\ pcUSB' # "claimAlt")
            => /\ pcUSB' = "idle"
               /\ ~isConnected'
               /\ connectionType' = "null"
               /\ ~usbBtnDisabled'
               /\ usbClaimed' = usbClaimed
       /\ pcUSB = "idle" => usbClaimed' = usbClaimed
       /\ (pcUSB = "idle" /\ pcUSB' # "idle") => ConnectUSBClick]_vars

C13_Witness ==
    /\ pcUSB = "idle"
    /\ usbAttempt = Interface0Attempts
    /\ usbClaimed = {}
    /\ ifHeld = Ifaces
    /\ ~isConnected


\* C15: a disconnectUSB that has reached the release of the claimed
\* interfaces goes on to close the device, whether the release succeeded or
\* failed.
C15_ReleaseFailureStillCloses ==
    [][(pcDiscUSB = "release" /\ pcDiscUSB' # "release")
         => pcDiscUSB' = "close"]_vars

\* C17: a reconnection attempt that resumes after disconnectBluetooth has
\* cleared the device it was started for changes neither the connected flag
\* nor the connection type.
C17_StaleReconnectAbandoned ==
    [][((autoInFlight' < autoInFlight \/ manualInFlight' < manualInFlight)
          /\ ~bluetoothDevice)
         => (isConnected' = isConnected
               /\ connectionType' = connectionType)]_vars

\* C18: while the controller is connected, the interval of
\* startConnectionMonitoring is running.
C18_ConnectedIsMonitored == isConnected => connectionMonitor


\* C19: the frame handed to the transport is bytesPerRow * height bytes
\* long, with bytesPerRow = ceil(width / 8), plus an overhead that is fixed
\* for the encoder: 11 bytes for generateImageCommands, 15 for
\* convertToBradyBitmap.
C19_FrameLength ==
    frame.encoder # "none"
        => Len(frame.wire) =
              ((image.width + 7) \div 8) * image.height
              + (IF frame.encoder = "raster" THEN 11 ELSE 15)

\* C20: the packed rows are row-aligned and most-significant-bit first: bit
\* 7 - b of byte k of row y is set exactly when x = 8k + b is inside the
\* raster and pixel (x, y) is dark.
C20_RowPacking ==
    frame.encoder # "none"
        => LET perRow == (image.width + 7) \div 8
           IN  /\ Len(frame.payload) = perRow * image.height
               /\ \A y \in 0 .. (image.height - 1), k \in 0 .. (perRow - 1),
                     b \in 0 .. 7 :
                     ((frame.payload[y * perRow + k + 1] \div 2 ^ (7 - b)) % 2
                        = 1)
                     <=> (8 * k + b < image.width
                            /\ <<8 * k + b, y>> \in image.dark)

C20_Witness ==
    /\ frame.encoder = "raster"
    /\ image.width = 9
    /\ image.height = 2
    /\ image.dark = Pixels(9, 2)
    /\ frame.payload = <<255, 128, 255, 128>>


\* C11: a feed or a cut request that takes the raw USB path because the SDK
\* has no method for it issues one write, of the bytes 1B 4A 0A for feed
\* and 1B 69 for cut, and nothing else.
C11_OneWriteExactBytes ==
    \A c \in Cmds :
       ~Has(c)
          => /\ cmd[c].writes \in
                   {<<>>, <<IF c = "feed" THEN <<27, 74, 10>>
                            ELSE <<27, 105>>>>}
             /\ cmd[c].outcome = "usbOk" => cmd[c].writes # <<>>

\* C14: when fixEndpointIssue has run after a stale-endpoint failure, the
\* controller is still connected over USB and an interface is claimed
\* again, unless every interface of the device is held by another program.
C14_StaleEndpointRebinds ==
    [][(\E c \in Cmds : cmd[c].pc = "fixClaim" /\ cmd'[c].pc # "fixClaim")
         => /\ isConnected'
            /\ connectionType' = "usb"
            /\ (usbClaimed' # {} \/ Ifaces \subseteq ifHeld')]_vars

\* C16: at most one transferOut is pending on the USB device.
C16_OneWriteInFlight ==
    Cardinality({c \in Cmds : cmd[c].pc = "transfer"}) <= 1


\* C21: in both encoders a pixel is ink exactly if its luminance
\* 0.299 R + 0.587 G + 0.114 B is below 128.
C21_InkIffLuminanceBelow128 ==
    \A path \in {"raster", "brady"} :
       ink[path] # -1
          => (ink[path] = 1
                <=> 299 * pixel.r + 587 * pixel.g + 114 * pixel.b < 128000)


\* C22: the command stream of every encoder is the initialize sequence,
\* graphics-mode enter, the four header bytes (bytesPerRow low, high, height
\* low, high), the packed payload, graphics-mode exit and the print
\* trigger, in this order and with nothing else.
C22_StreamLayout ==
    frame.encoder # "none"
        => frame.wire =
              <<27, 64>> \o <<27, 105, 71>>
              \o <<((image.width + 7) \div 8) % 256,
                   ((image.width + 7) \div 8) \div 256,
                   image.height % 256, image.height \div 256>>
              \o frame.payload \o <<27, 105, 69>> \o <<27, 105, 80>>


\* C23: an image of zero width or height, also after scaling, or one that
\* does not decode never yields a command stream or a write, and its
\* encode call ends with an error.
C23_BadRasterIsRejected ==
    /\ [](((conv.pc # "idle" /\ ~conv.src.decodes)
           \/ (conv.pc \notin {"idle", "loading"}
               /\ (conv.src.width = 0 \/ conv.src.height = 0
                   \/ conv.canvas[1] = 0 \/ conv.canvas[2] = 0)))
          => (~conv.stream /\ conv.writes = 0))
    /\ ((conv.pc = "loading"
         /\ (~conv.src.decodes \/ conv.src.width = 0 \/ conv.src.height = 0
             \/ canvasSize(conv.src.width, conv.src.height)[1] = 0
             \/ canvasSize(conv.src.width, conv.src.height)[2] = 0))
        ~> conv.pc = "rejected")


C25_CounterDiscipline ==
    [][/\ reconnectAttempts' > reconnectAttempts
            => /\ autoInFlight' = autoInFlight
               /\ manualInFlight' = manualInFlight
               /\ ~(gattDropPending = "user" /\ gattDropPending' = "none")
       /\ manualInFlight' > manualInFlight => reconnectAttempts' = 0
       /\ (~isConnected /\ isConnected') => reconnectAttempts' = 0]_vars


\* C26: when an automatic attempt fails past the cooldown with
\* reconnectAttempts at maxReconnectAttempts, the state is Disconnected
\* afterwards and the counter still equals maxReconnectAttempts.
C26_GiveUpKeepsCounter ==
    [][(/\ autoInFlight' < autoInFlight
        /\ failedAuto' > 0
        /\ sinceDisc >= reconnectionCooldown
        /\ reconnectAttempts >= maxReconnectAttempts)
         => /\ ~isConnected'
            /\ connectionType' = "null"
            /\ reconnectAttempts' = maxReconnectAttempts]_vars


C28_PollingWithinChannel ==
    usbPollingInterval
        => /\ isConnected
           /\ connectionType = "usb"
           /\ usbDevice
           /\ usbOpened


\* C29: an interface bound in place of interface 0 has an OUT endpoint.
C29_BoundInterfaceHasOut ==
    (usbDevice /\ usbInterfaceNumber >= 1) => usbInterfaceNumber \in IfOut


\* C30: when disconnectUSB has closed the device and dropped its handle, no
\* interface number of the old connection is recorded any more.
C30_BindingInvalidated ==
    [][(usbDevice /\ ~usbDevice') => usbInterfaceNumber' = -1]_vars


\* C31: within one invocation of feed or cut each SDK method is called at
\* most once and no raw command is written twice.
C31_NoRetryBeyondChain ==
    \A c \in Cmds :
       /\ cmd[c].sdkCalls <= 1
       /\ \A i, j \in DOMAIN cmd[c].writes :
             cmd[c].writes[i] = cmd[c].writes[j] => i = j


\* C32: the controller never invokes a method that the SDK object does not
\* have.
C32_CallsAreCapabilityChecked == sdkMissing = {}


\* C33: every command stream is built from a raster of at most maxWidth by
\* maxHeight pixels, so a row has at most 48 bytes and each dimension fits
\* its 16-bit header field.
C33_FrameFitsPrintableArea ==
    conv.stream
       => /\ conv.canvas[1] <= maxWidth
          /\ conv.canvas[2] <= maxHeight
          /\ bytesPerRow(conv.canvas[1]) <= 48
          /\ conv.canvas[1] < 65536 /\ conv.canvas[2] < 65536


\* C34: the first raw USB write of a feed, a cut or a status query is
\* issued only after the SDK path of the intent has been entered, or when
\* the SDK has no method for the intent.
C34_SdkBeforeRawUsb ==
    [][\A c \in Intents :
          (cmd'[c].pc = "transfer" /\ cmd'[c].writes # cmd[c].writes
           /\ Len(cmd'[c].writes) = 1)
             => \/ ~Has(IF c = "status" THEN "isConnected" ELSE c)
                \/ cmd[c].pc \in {"sdk", "sdkRetry"}]_vars


\* C35: every gattserverdisconnected event of a lost link that is delivered
\* while the controller is connected over Bluetooth leaves it not connected.
C35_NoDropIsLost ==
    [][(gattDropPending = "env" /\ gattDropPending' = "none"
        /\ isConnected /\ connectionType = "bluetooth")
         => ~isConnected']_vars


\* C36: a gattserverdisconnected event that is delivered while the
\* controller is connected over USB or over the network leaves isConnected
\* and connectionType as they are.
C36_DropLeavesOtherTransport ==
    [][(gattDropPending # "none" /\ gattDropPending' = "none"
        /\ isConnected /\ connectionType \in {"usb", "network"})
         => (isConnected' /\ connectionType' = connectionType)]_vars


\* C37: the pending reconnection timers, the automatic and the manual
\* attempts in flight and a running connectBluetooth number at most one
\* altogether.
C37_OneReconnectionAtATime ==
    TimerCount + autoInFlight + manualInFlight + Running(pcBT) <= 1


\* C38: when a force-interface-0 operation ends, whether it has claimed
\* interface 0 or not, and the controller is connected over USB, then
\* usbInterfaceNumber is a claimed interface and the OUT endpoint used for
\* writes is on that interface.
C38_ReclaimKeepsBinding ==
    [][(force.pc # "idle" /\ force'.pc = "idle"
        /\ isConnected' /\ connectionType' = "usb")
         => (usbInterfaceNumber' \in usbClaimed'
             /\ WriteInterface' = usbInterfaceNumber')]_vars


\* C39: the bytes sendUSBCommand gives to transferOut are the command
\* stream of convertToBradyBitmap, byte for byte.
C39_SendIsBytePreserving ==
    frame.encoder = "brady"
        => /\ Len(frame.wire) = Len(convertToBradyBitmap(image))
           /\ \A k \in DOMAIN frame.wire :
                 frame.wire[k] = convertToBradyBitmap(image)[k]


\* C40: at most one read is pending on the IN endpoint of the USBConnection
\* object, and no reply has gone to the listener or to a timed-out read
\* while a reader was waiting for it.
C40_OneReadOutstanding ==
    /\ (IF usbIn.listening THEN 1 ELSE 0) + usbIn.readers + usbIn.late <= 1
    /\ ~usbIn.stolen

====
